---- MODULE Spec2Model ----
(***************************************************************************)
(* Render / timing / transition pipeline of AI_video_studio:               *)
(*   backend/ai_services.py  compute_scene_timings, _group_chars_into_words*)
(*                           auto_group_captions, generate_captions_ass,   *)
(*                           create_video_with_transitions,                *)
(*                           _build_concat_video, _build_xfade_chain       *)
(*   backend/tasks.py        generate_voiceover_task, render_video_task    *)
(*   backend/main.py         update_voiceover_scene_timings,               *)
(*                           update_voiceover_caption_settings,            *)
(*                           render_video, update_segmentation_preview     *)
(*   backend/tasks.py        segment_project_task                          *)
(*   backend/crud.py         insert_scene_at, delete_scene, update_scene   *)
(*   backend/celery_worker.py  the worker pool                             *)
(*   backend/tasks.py        generate_image_task                           *)
(*   backend/ai_services.py  generate_image_with_leonardo (poll loop)      *)
(*   backend/main.py         approve_project, iterate_script,              *)
(*                           approve_image, reject_image                   *)
(*   backend/crud.py         create_script_iteration,                      *)
(*                           get_last_script_iterations_feedback           *)
(*                                                                         *)
(* Strings are sequences of one-character strings.  Alignment times are    *)
(* integers in ticks of 0.1 ms; everything produced by round(x, 3) is an   *)
(* integer number of milliseconds.  Python list indexing keeps its         *)
(* semantics: index -1 is the last element, an index outside              *)
(* [-len, len-1] raises IndexError.                                        *)
(***************************************************************************)
EXTENDS Integers, Sequences, FiniteSets, TLC

VARIABLES
    scenes,        \* the project's scenes: [id, text, order, image_ok]
    voiceover,     \* the voiceover record (models.Voiceover row)
    videos,        \* the video records created by render_video_task
    task,          \* outcome of the last Celery task run
    cv,            \* one execution of create_video_with_transitions
    cap,           \* one execution of the caption functions
    pool,          \* the Celery queue and the worker processes
    images,        \* the image records (models.Image rows)
    iterations     \* the script iteration records (models.ScriptIteration rows)

vars == <<scenes, voiceover, videos, task, cv, cap, pool, images, iterations>>

----------------------------------------------------------------------------
(* Bounds of the model *)

MaxScenes == 3          \* scenes per project
MaxEntries == 3         \* scene render entries handed to the compositor
MaxWords == 7           \* words of a caption alignment
MaxRawLen == 3          \* characters of a grouping-service response
MaxChars == 4           \* characters of an exhaustively enumerated Alignment
MaxGroupWords == 11     \* words handed to the caption grouper
MaxVideos == 1          \* video records created in one behaviour
MaxHours == 1           \* whole hours of a time handed to _format_ass_time
MaxRequests == 3        \* render requests accepted in one behaviour
MaxWorkers == 2         \* worker processes of the Celery pool
MaxProjects == 2        \* projects, each with one voiceover
MaxSceneId == 4         \* scene rows ever created in one behaviour

----------------------------------------------------------------------------
(* Generic helpers *)

Min(a, b) == IF a < b THEN a ELSE b

RECURSIVE SumSeq(_)
SumSeq(s) == IF s = <<>> THEN 0 ELSE Head(s) + SumSeq(Tail(s))

\* seq[idx] of Python: negative indices count from the end.
PyInRange(seq, idx) == idx < Len(seq) /\ idx >= 0 - Len(seq)

PyIndex(seq, idx) == IF idx >= 0 THEN seq[idx + 1] ELSE seq[Len(seq) + idx + 1]

\* seq[lo:hi] of Python for 0 <= lo.
PySlice(seq, lo, hi) == SubSeq(seq, lo + 1, Min(hi, Len(seq)))

\* round(x, 3): ticks of 0.1 ms to the nearest millisecond.  The inputs of
\* the model are even numbers of ticks, so no tie occurs.
Round3(ticks) == (ticks + 5) \div 10

\* " ".join(parts)
RECURSIVE JoinSpace(_)
JoinSpace(parts) ==
    IF parts = <<>> THEN <<>>
    ELSE IF Len(parts) = 1 THEN parts[1]
    ELSE parts[1] \o <<" ">> \o JoinSpace(Tail(parts))

----------------------------------------------------------------------------
(* Scene Timing Computer: ai_services.compute_scene_timings *)

\* CharRangesLoop with the separator counted into the range.
RECURSIVE CharRangesLoop_EndAfterSeparator(_, _, _)
CharRangesLoop_EndAfterSeparator(scene_texts, full_text, ranges) ==
    IF scene_texts = <<>> THEN ranges
    ELSE LET text == Head(scene_texts)
             start == Len(full_text)
             with_sep == full_text \o text \o <<" ">>
         IN  CharRangesLoop_EndAfterSeparator(Tail(scene_texts), with_sep,
                 Append(ranges, <<start, Len(with_sep) - 1>>))

\* The first loop: full_text grows by the text and one separator; the range
\* of a scene is (len before, len after the text - 1).
RECURSIVE CharRangesLoop(_, _, _)
CharRangesLoop(scene_texts, full_text, ranges) ==
    IF scene_texts = <<>> THEN ranges
    ELSE LET text == Head(scene_texts)
             start == Len(full_text)
             with_text == full_text \o text
             end_idx == Len(with_text) - 1
         IN  CharRangesLoop(Tail(scene_texts), with_text \o <<" ">>,
                            Append(ranges, <<start, end_idx>>))

scene_char_ranges(scene_texts) == CharRangesLoop(scene_texts, <<>>, <<>>)

\* min(char_start, len(char_start_times) - 1)
clamped_start(range, alignment) ==
    Min(range[1], Len(alignment.character_start_times_seconds) - 1)

\* min(char_end, len(char_end_times) - 1)
clamped_end(range, alignment) ==
    Min(range[2], Len(alignment.character_end_times_seconds) - 1)

\* The reads char_start_times[clamped_start], char_end_times[clamped_end]
\* raise IndexError when the index is outside the list.
TimingReadsOk(scene_texts, alignment) ==
    \A i \in 1..Len(scene_texts) :
        LET r == scene_char_ranges(scene_texts)[i]
        IN  /\ PyInRange(alignment.character_start_times_seconds,
                         clamped_start(r, alignment))
            /\ PyInRange(alignment.character_end_times_seconds,
                         clamped_end(r, alignment))

\* compute_scene_timings that leaves out the last scene.
compute_scene_timings_DropLast(scene_texts, scene_ids, alignment) ==
    LET ranges == scene_char_ranges(scene_texts)
    IN  [i \in 1..(Len(ranges) - 1) |->
            [scene_id |-> scene_ids[i],
             start_time |-> Round3(PyIndex(alignment.character_start_times_seconds,
                                           clamped_start(ranges[i], alignment))),
             end_time |-> Round3(PyIndex(alignment.character_end_times_seconds,
                                         clamped_end(ranges[i], alignment))),
             transition_type |-> "cut",
             transition_duration |-> 0]]

compute_scene_timings(scene_texts, scene_ids, alignment) ==
    LET ranges == scene_char_ranges(scene_texts)
    IN  [i \in 1..Len(ranges) |->
            [scene_id |-> scene_ids[i],
             start_time |-> Round3(PyIndex(alignment.character_start_times_seconds,
                                           clamped_start(ranges[i], alignment))),
             end_time |-> Round3(PyIndex(alignment.character_end_times_seconds,
                                         clamped_end(ranges[i], alignment))),
             transition_type |-> "cut",
             transition_duration |-> 0]]

----------------------------------------------------------------------------
(* Transition Compositor: ai_services.create_video_with_transitions,        *)
(* _build_concat_video, _build_xfade_chain.  Durations are milliseconds.   *)

Durations(scene_entries) == [i \in 1..Len(scene_entries) |-> scene_entries[i].duration]

\* has_transitions that also looks at the last entry.
has_transitions_AllEntries(scene_entries) ==
    \E i \in 1..Len(scene_entries) :
        /\ scene_entries[i].transition_duration > 0
        /\ scene_entries[i].transition_type # "cut"

\* any(e.transition_duration > 0 and e.transition_type != "cut"
\*     for e in scene_entries[:-1])
has_transitions(scene_entries) ==
    \E i \in 1..(Len(scene_entries) - 1) :
        /\ scene_entries[i].transition_duration > 0
        /\ scene_entries[i].transition_type # "cut"

\* The branch of create_video_with_transitions.
UsesXfadeChain(scene_entries) ==
    has_transitions(scene_entries) /\ Len(scene_entries) > 1

\* XfadeStep with the overlap forgotten: the offset advances by the whole
\* outgoing segment.
XfadeStep_NoOverlap(entry, cumulative_offset) ==
    IF entry.transition_type = "cut" \/ entry.transition_duration <= 0
    THEN [kind |-> "concat", name |-> "concat", duration |-> 0,
          offset |-> cumulative_offset + entry.duration]
    ELSE [kind |-> "xfade",
          name |-> IF entry.transition_type = "fade_to_black" THEN "fadeblack" ELSE "fade",
          duration |-> entry.transition_duration,
          offset |-> cumulative_offset + entry.duration]

\* XfadeStep without "if offset < 0: offset = 0".
XfadeStep_NoClamp(entry, cumulative_offset) ==
    IF entry.transition_type = "cut" \/ entry.transition_duration <= 0
    THEN [kind |-> "concat", name |-> "concat", duration |-> 0,
          offset |-> cumulative_offset + entry.duration]
    ELSE [kind |-> "xfade",
          name |-> IF entry.transition_type = "fade_to_black" THEN "fadeblack" ELSE "fade",
          duration |-> entry.transition_duration,
          offset |-> cumulative_offset + entry.duration - entry.transition_duration]

\* One iteration of the loop of _build_xfade_chain for segment i (1-based
\* position i+1 here): entry is scene_entries[i - 1] of the code.
XfadeStep(entry, cumulative_offset) ==
    IF entry.transition_type = "cut" \/ entry.transition_duration <= 0
    THEN [kind |-> "concat",
          name |-> "concat",
          duration |-> 0,
          offset |-> cumulative_offset + entry.duration]
    ELSE LET raw == cumulative_offset + entry.duration - entry.transition_duration
         IN  [kind |-> "xfade",
              name |-> IF entry.transition_type = "fade_to_black"
                       THEN "fadeblack" ELSE "fade",
              duration |-> entry.transition_duration,
              offset |-> IF raw < 0 THEN 0 ELSE raw]

\* Stream labels of the filter graph: "[i]" is input i, "[v<i>]" the output
\* of the filter part built for segment i.
InputLabel(i) == <<"in", i>>

OutLabel(i) == <<"v", i>>

\* for i in range(1, len(segment_paths)): the filter parts in order; the
\* offset of part k is cumulative_offset after the iteration.  Each part
\* reads prev_label and input i and writes [v<i>], the next prev_label.
RECURSIVE XfadeLoop(_, _, _, _, _)
XfadeLoop(scene_entries, i, cumulative_offset, prev_label, filter_parts) ==
    IF i > Len(scene_entries) - 1 THEN filter_parts
    ELSE LET part == XfadeStep(scene_entries[i], cumulative_offset)
             labels == [first |-> prev_label, second |-> InputLabel(i),
                        out |-> OutLabel(i)]
         IN  XfadeLoop(scene_entries, i + 1, part.offset, OutLabel(i),
                       Append(filter_parts, part @@ labels))

_build_xfade_chain(scene_entries) ==
    IF Len(scene_entries) = 1 THEN <<>>
    ELSE XfadeLoop(scene_entries, 1, 0, InputLabel(0), <<>>)

\* Position in the composited video at which each segment begins: segment 0
\* at 0, segment i at the cumulative offset its filter part was built with.
XfadeSegmentStarts(scene_entries) ==
    LET parts == _build_xfade_chain(scene_entries)
    IN  [i \in 1..Len(scene_entries) |-> IF i = 1 THEN 0 ELSE parts[i - 1].offset]

\* Concat demuxer of _build_concat_video: the clips back to back.
ConcatSegmentStarts(scene_entries) ==
    [i \in 1..Len(scene_entries) |->
        SumSeq(SubSeq(Durations(scene_entries), 1, i - 1))]

SegmentStarts(scene_entries) ==
    IF UsesXfadeChain(scene_entries) THEN XfadeSegmentStarts(scene_entries)
    ELSE ConcatSegmentStarts(scene_entries)

\* Length of the composited video: the last segment runs from its start for
\* its whole duration.
VideoLength(scene_entries) ==
    LET n == Len(scene_entries)
    IN  SegmentStarts(scene_entries)[n] + scene_entries[n].duration

----------------------------------------------------------------------------
(* Word Grouper: ai_services._group_chars_into_words *)

None == -1      \* Python None in word_start / word_end

\* ch == " " or ch == "\n"
IsBreak(ch) == ch = " " \/ ch = "\n"

\* starts[i] and ends[i] are read for every non-break character: a shorter
\* list raises IndexError there.
GroupReadsOk(alignment) ==
    \A i \in 1..Len(alignment.characters) :
        ~IsBreak(alignment.characters[i]) =>
            /\ i <= Len(alignment.character_start_times_seconds)
            /\ i <= Len(alignment.character_end_times_seconds)

\* GroupStep that keeps word_start when a word is flushed.
GroupStep_KeepStart(alignment, i, st) ==
    LET ch == alignment.characters[i]
    IN  IF IsBreak(ch)
        THEN IF st.current_word # <<>>
             THEN [words |-> Append(st.words, [word |-> st.current_word,
                                               start |-> st.word_start,
                                               end |-> st.word_end]),
                   current_word |-> <<>>,
                   word_start |-> st.word_start,
                   word_end |-> None]
             ELSE st
        ELSE [words |-> st.words,
              current_word |-> Append(st.current_word, ch),
              word_start |-> IF st.word_start = None
                             THEN alignment.character_start_times_seconds[i]
                             ELSE st.word_start,
              word_end |-> alignment.character_end_times_seconds[i]]

\* Body of "for i, ch in enumerate(chars)" on the loop state
\* st = [words, current_word, word_start, word_end].
GroupStep(alignment, i, st) ==
    LET ch == alignment.characters[i]
    IN  IF IsBreak(ch)
        THEN IF st.current_word # <<>>
             THEN [words |-> Append(st.words, [word |-> st.current_word,
                                               start |-> st.word_start,
                                               end |-> st.word_end]),
                   current_word |-> <<>>,
                   word_start |-> None,
                   word_end |-> None]
             ELSE st
        ELSE [words |-> st.words,
              current_word |-> Append(st.current_word, ch),
              word_start |-> IF st.word_start = None
                             THEN alignment.character_start_times_seconds[i]
                             ELSE st.word_start,
              word_end |-> alignment.character_end_times_seconds[i]]

RECURSIVE GroupLoop(_, _, _)
GroupLoop(alignment, i, st) ==
    IF i > Len(alignment.characters) THEN st
    ELSE GroupLoop(alignment, i + 1, GroupStep(alignment, i, st))

_group_chars_into_words(alignment) ==
    LET st == GroupLoop(alignment, 1, [words |-> <<>>, current_word |-> <<>>,
                                       word_start |-> None, word_end |-> None])
    IN  IF st.current_word # <<>>
        THEN Append(st.words, [word |-> st.current_word,
                               start |-> st.word_start,
                               end |-> st.word_end])
        ELSE st.words

----------------------------------------------------------------------------
(* Caption Grouper: ai_services.auto_group_captions *)

Digits == <<"0", "1", "2", "3", "4", "5", "6", "7", "8", "9">>

DigitValue(ch) == (CHOOSE d \in 1..10 : Digits[d] = ch) - 1

IsDigitChar(ch) == \E d \in 1..10 : Digits[d] = ch

\* raw.replace("\n", ",")
ReplaceNewline(raw) == [k \in 1..Len(raw) |-> IF raw[k] = "\n" THEN "," ELSE raw[k]]

\* str.split(","): the pieces between commas, empty pieces included.
RECURSIVE SplitComma(_, _, _)
SplitComma(s, piece, pieces) ==
    IF s = <<>> THEN Append(pieces, piece)
    ELSE IF Head(s) = "," THEN SplitComma(Tail(s), <<>>, Append(pieces, piece))
    ELSE SplitComma(Tail(s), Append(piece, Head(s)), pieces)

\* str.strip()
RECURSIVE LStrip(_)
LStrip(s) == IF s # <<>> /\ Head(s) \in {" ", "\n", "\t"} THEN LStrip(Tail(s)) ELSE s

RECURSIVE RStrip(_)
RStrip(s) ==
    IF s # <<>> /\ s[Len(s)] \in {" ", "\n", "\t"}
    THEN RStrip(SubSeq(s, 1, Len(s) - 1)) ELSE s

Strip(s) == RStrip(LStrip(s))

\* str.isdigit()
IsDigitToken(token) == token # <<>> /\ \A k \in 1..Len(token) : IsDigitChar(token[k])

\* int(token)
RECURSIVE IntOf(_)
IntOf(token) ==
    IF token = <<>> THEN 0
    ELSE 10 * IntOf(SubSeq(token, 1, Len(token) - 1)) + DigitValue(token[Len(token)])

\* The loop over raw.replace("\n", ",").split(","): the integers appended to
\* boundaries, in order.
ParsedIndices(raw) ==
    LET tokens == SplitComma(ReplaceNewline(raw), <<>>, <<>>)
        stripped == [k \in 1..Len(tokens) |-> Strip(tokens[k])]
    IN  [k \in 1..Len(stripped) |->
            IF IsDigitToken(stripped[k]) THEN IntOf(stripped[k]) ELSE None]

\* KeptIndices with the lower bound off by one: 0 <= b.
KeptIndices_AllowZero(raw, n_words) ==
    LET parsed == ParsedIndices(raw)
    IN  {parsed[k] : k \in {j \in 1..Len(parsed) :
                              parsed[j] # None /\ 0 <= parsed[j] /\ parsed[j] < n_words}}

\* set(b for b in boundaries if 0 < b < len(words))
KeptIndices(raw, n_words) ==
    LET parsed == ParsedIndices(raw)
    IN  {parsed[k] : k \in {j \in 1..Len(parsed) :
                              parsed[j] # None /\ 0 < parsed[j] /\ parsed[j] < n_words}}

\* sorted(S)
RECURSIVE Sorted(_)
Sorted(S) ==
    IF S = {} THEN <<>>
    ELSE LET m == CHOOSE x \in S : \A y \in S : x <= y
         IN  <<m>> \o Sorted(S \ {m})

\* list(range(5, len(words), 5))
FallbackBoundaries(n_words) ==
    [k \in 1..(IF n_words > 5 THEN (n_words - 1) \div 5 ELSE 0) |-> 5 * k]

\* The service either raises (any exception inside the try block) or
\* answers with the text raw.
auto_group_captions(n_words, raises, raw) ==
    IF raises THEN FallbackBoundaries(n_words)
    ELSE Sorted(KeptIndices(raw, n_words))

----------------------------------------------------------------------------
(* Subtitle Track Builder: ai_services._format_ass_time,                    *)
(* generate_captions_ass                                                   *)

TicksPerSecond == 10000
TicksPerCentisecond == 100

\* f"{h}:{m:02d}:{s:05.2f}" as its fields [h, m, s, c]: s % 60 is rounded
\* to two decimals by the format, after h and m were cut off.  The model's
\* times never lie exactly between two hundredths.
_format_ass_time(seconds) ==
    LET h == seconds \div (3600 * TicksPerSecond)
        m == (seconds % (3600 * TicksPerSecond)) \div (60 * TicksPerSecond)
        s == seconds % (60 * TicksPerSecond)
        hundredths == (s + (TicksPerCentisecond \div 2)) \div TicksPerCentisecond
    IN  [h |-> h, m |-> m, s |-> hundredths \div 100, c |-> hundredths % 100]

word_highlight_chunk_size == 5
subtitle_chunks_chunk_size == 6

\* HighlightChunkEvents that always highlights the first word of the chunk.
HighlightChunkEvents_FirstHighlighted(chunk) ==
    LET chunk_end == chunk[Len(chunk)].end
    IN  [wi \in 1..Len(chunk) |->
            [start |-> _format_ass_time(chunk[wi].start),
             end |-> _format_ass_time(IF wi < Len(chunk)
                                      THEN chunk[wi + 1].start
                                      ELSE chunk_end),
             style |-> "Default",
             parts |-> [wj \in 1..Len(chunk) |->
                           [style |-> IF wj = 1 THEN "Highlight" ELSE "Dim",
                            word |-> chunk[wj].word]]]]

\* HighlightChunkEvents that ends each event at its own word's end.
HighlightChunkEvents_EndAtWordEnd(chunk) ==
    [wi \in 1..Len(chunk) |->
        [start |-> _format_ass_time(chunk[wi].start),
         end |-> _format_ass_time(chunk[wi].end),
         style |-> "Default",
         parts |-> [wj \in 1..Len(chunk) |->
                       [style |-> IF wj = wi THEN "Highlight" ELSE "Dim",
                        word |-> chunk[wj].word]]]]

\* Inner loops of the word_highlight branch for one chunk: one Dialogue
\* line per word wi, all words of the chunk as line_parts.
HighlightChunkEvents(chunk) ==
    LET chunk_end == chunk[Len(chunk)].end
    IN  [wi \in 1..Len(chunk) |->
            [start |-> _format_ass_time(chunk[wi].start),
             end |-> _format_ass_time(IF wi < Len(chunk)
                                      THEN chunk[wi + 1].start
                                      ELSE chunk_end),
             style |-> "Default",
             parts |-> [wj \in 1..Len(chunk) |->
                           [style |-> IF wj = wi THEN "Highlight" ELSE "Dim",
                            word |-> chunk[wj].word]]]]

\* PlainChunkEvents that ends the event at the end of the chunk's first word.
PlainChunkEvents_EndAtFirstWord(chunk) ==
    <<[start |-> _format_ass_time(chunk[1].start),
       end |-> _format_ass_time(chunk[1].end),
       style |-> "Default",
       parts |-> [wj \in 1..Len(chunk) |-> [style |-> "Plain", word |-> chunk[wj].word]]]>>

\* The else branch for one chunk: one Dialogue line with the plain text.
PlainChunkEvents(chunk) ==
    <<[start |-> _format_ass_time(chunk[1].start),
       end |-> _format_ass_time(chunk[Len(chunk)].end),
       style |-> "Default",
       parts |-> [wj \in 1..Len(chunk) |-> [style |-> "Plain", word |-> chunk[wj].word]]]>>

\* for chunk_start in range(0, len(words), chunk_size)
RECURSIVE ChunkLoop(_, _, _, _)
ChunkLoop(words, chunk_start, caption_style, events) ==
    IF chunk_start >= Len(words) THEN events
    ELSE LET chunk_size == IF caption_style = "word_highlight"
                           THEN word_highlight_chunk_size
                           ELSE subtitle_chunks_chunk_size
             chunk == PySlice(words, chunk_start, chunk_start + chunk_size)
             new == IF caption_style = "word_highlight"
                    THEN HighlightChunkEvents(chunk)
                    ELSE PlainChunkEvents(chunk)
         IN  ChunkLoop(words, chunk_start + chunk_size, caption_style, events \o new)

\* raise ValueError("No words found in alignment data")
CaptionsRaise(alignment) ==
    ~GroupReadsOk(alignment) \/ _group_chars_into_words(alignment) = <<>>

\* The Alignment and MarginV fields of the three Style lines of the header
\* that generate_captions_ass writes.
StyleHeader == [Alignment |-> 2, MarginV |-> 60]

generate_captions_ass(alignment, caption_style) ==
    ChunkLoop(_group_chars_into_words(alignment), 0, caption_style, <<>>)

----------------------------------------------------------------------------
(* Inputs: scene texts and the Alignment the speech provider returns *)

ExampleTexts == <<<<"H", "e", "l", "l", "o", " ", "w", "o", "r", "l", "d", ".">>,
                  <<"A", " ", "s", "e", "c", "o", "n", "d", " ", "s", "c", "e", "n", "e", " ", "h", "e", "r", "e", ".">>,
                  <<"F", "i", "n", "a", "l", " ", "s", "c", "e", "n", "e", ".">>>>

\* Image availability: every scene has a usable image file, or the first or
\* the last scene has none.
ImagePatterns(n) == {[i \in 1..n |-> i # miss] : miss \in {0, 1, n}}

MakeScenes(texts, usable) ==
    [i \in 1..Len(texts) |->
        [id |-> i, text |-> texts[i], order |-> i, image_ok |-> usable[i]]]

SceneLists ==
    UNION {{MakeScenes(texts, usable) :
                texts \in [1..n -> {<<>>, <<"a", "b">>}],
                usable \in ImagePatterns(n)} :
           n \in 0..MaxScenes}
    \cup {MakeScenes(ExampleTexts, [i \in 1..3 |-> TRUE])}

CharTicks == TicksPerSecond \div 10     \* 0.1 s per character

TimingPatterns == {"uniform", "zero", "mixed"}

GapPositions == {0, 1, 4}

CharDur(pattern, k) ==
    IF pattern = "uniform" THEN CharTicks
    ELSE IF pattern = "zero" THEN 0
    ELSE IF k % 2 = 1 THEN (2 * CharTicks + 346) ELSE CharTicks

RECURSIVE StartTick(_, _, _)
StartTick(pattern, gap_pos, k) ==
    (IF gap_pos = k THEN (5 * CharTicks) ELSE 0)
    + (IF k = 1 THEN 0
       ELSE StartTick(pattern, gap_pos, k - 1) + CharDur(pattern, k - 1))

\* An Alignment of the data model: equal lengths, non-decreasing times,
\* start <= end.  gap_pos = 0: no pause.
MakeAlignment(chars, pattern, gap_pos) ==
    [characters |-> chars,
     character_start_times_seconds |->
        [k \in 1..Len(chars) |-> StartTick(pattern, gap_pos, k)],
     character_end_times_seconds |->
        [k \in 1..Len(chars) |-> StartTick(pattern, gap_pos, k) + CharDur(pattern, k)]]

\* What the provider may return for the text sent: the text's characters
\* under each timing, or one character less or more than the text.
AlignmentsFor(full_text) ==
    {MakeAlignment(full_text, p, g) : p \in TimingPatterns, g \in GapPositions}
    \cup {MakeAlignment(SubSeq(full_text, 1, Len(full_text) - 1), "uniform", 0),
          MakeAlignment(full_text \o <<".">>, "uniform", 3)}

----------------------------------------------------------------------------
(* Voiceover and render tasks: tasks.generate_voiceover_task,               *)
(* tasks.render_video_task, main.update_voiceover_scene_timings,           *)
(* main.update_voiceover_caption_settings                                  *)

DurationFloor == 1000   \* duration = 1.0 when end_time - start_time <= 0

NewVoiceover ==
    [status |-> "pending",
     has_audio |-> FALSE,
     alignment_data |-> <<>>,
     scene_timings |-> <<>>,
     total_duration |-> 0,
     captions_enabled |-> FALSE,
     caption_style |-> "word_highlight"]

NoTask ==
    [name |-> "none", result |-> "none", error |-> "none",
     full_text |-> <<>>, char_ranges |-> <<>>, timings |-> <<>>,
     scene_entries |-> <<>>, segment_starts |-> <<>>, video_length |-> 0]

CvIdle ==
    [pc |-> "idle", scene_entries |-> <<>>, ass |-> FALSE, seg_done |-> 0,
     temp_dir |-> FALSE, list_file |-> FALSE, path |-> "none", filter_parts |-> <<>>,
     segment_starts |-> <<>>, video_length |-> 0, burned |-> 0,
     muxed |-> FALSE, result |-> "none"]

CapIdle ==
    [pc |-> "idle", alignment |-> MakeAlignment(<<>>, "uniform", 0),
     caption_style |-> "none", words |-> <<>>, boundaries |-> <<>>,
     events |-> <<>>, result |-> "none", raises |-> FALSE, raw |-> <<>>,
     seconds |-> 0, stamp |-> <<>>]

NoJob == [name |-> "none", project_id |-> 0, voiceover_id |-> 0, pc |-> "none"]

Workers == 1..MaxWorkers

PoolIdle ==
    [queue |-> <<>>, running |-> [w \in Workers |-> NoJob], requests |-> 0,
     response |-> "none"]

SceneTexts == [i \in 1..Len(scenes) |-> scenes[i].text]

SceneIds == [i \in 1..Len(scenes) |-> scenes[i].id]

\* max(end_times) if end_times else 0.0
MaxEndTime(alignment) ==
    LET ends == alignment.character_end_times_seconds
    IN  IF ends = <<>> THEN 0
        ELSE CHOOSE m \in {ends[k] : k \in 1..Len(ends)} :
                 \A k \in 1..Len(ends) : ends[k] <= m

TaskDone(name, result, error) ==
    [NoTask EXCEPT !.name = name, !.result = result, !.error = error]

\* generate_voiceover_task, run once for the voiceover record that
\* main.generate_voiceover created.  tts_ok = FALSE: the speech call raises.
GenerateVoiceoverTask ==
    /\ voiceover.status = "pending"
    /\ \/ /\ scenes = <<>>
          /\ voiceover' = [voiceover EXCEPT !.status = "error"]
          /\ task' = TaskDone("generate_voiceover", "error", "No scenes found")
       \/ /\ scenes # <<>>
          /\ voiceover' = [voiceover EXCEPT !.status = "error"]
          /\ task' = TaskDone("generate_voiceover", "error", "TTS failed")
       \/ /\ scenes # <<>>
          /\ \E alignment \in AlignmentsFor(JoinSpace(SceneTexts)) :
                IF TimingReadsOk(SceneTexts, alignment)
                THEN /\ voiceover' =
                           [voiceover EXCEPT
                              !.has_audio = TRUE,
                              !.alignment_data = <<alignment>>,
                              !.scene_timings =
                                  compute_scene_timings(SceneTexts, SceneIds, alignment),
                              !.total_duration = Round3(MaxEndTime(alignment)),
                              !.status = "ready"]
                     /\ task' = [TaskDone("generate_voiceover", "ok", "none")
                                   EXCEPT !.full_text = JoinSpace(SceneTexts),
                                          !.char_ranges = scene_char_ranges(SceneTexts)]
                ELSE /\ voiceover' = [voiceover EXCEPT !.status = "error"]
                     /\ task' = TaskDone("generate_voiceover", "error", "IndexError")
    /\ UNCHANGED <<scenes, videos, cv, cap, pool, images, iterations>>

\* Bodies the timeline editor sends: the stored entries with new transition
\* fields or new times.
FadeMs == 2 * 100
LongFadeMs == 5 * 1000

EditedTimings(timings, kind) ==
    [i \in 1..Len(timings) |->
        IF kind = "fade"
        THEN [timings[i] EXCEPT !.transition_type = "fade",
                                !.transition_duration = FadeMs]
        ELSE IF kind = "mixed"
        THEN IF i % 2 = 1
             THEN [timings[i] EXCEPT !.transition_type = "fade_to_black",
                                     !.transition_duration = LongFadeMs]
             ELSE [timings[i] EXCEPT !.transition_type = "cut",
                                     !.transition_duration = FadeMs]
        ELSE IF i = 1
        THEN [timings[i] EXCEPT !.start_time = timings[i].end_time,
                                !.end_time = timings[i].start_time]
        ELSE timings[i]]

\* PUT /voiceover/scene-timings
UpdateVoiceoverSceneTimings ==
    /\ \E kind \in {"fade", "mixed", "swap"} :
          voiceover' = [voiceover EXCEPT
                          !.scene_timings = EditedTimings(voiceover.scene_timings, kind)]
    /\ UNCHANGED <<scenes, videos, task, cv, cap, pool, images, iterations>>

\* schemas.UpdateCaptionSettings bodies: captions_enabled, caption_style,
\* caption_alignment, caption_margin_v (None when the field is left out).
CaptionSettings ==
    {<<FALSE, "word_highlight", None, None>>,
     <<TRUE, "word_highlight", 8, 100>>,
     <<TRUE, "subtitle_chunks", 8, 100>>}

\* PUT /voiceover/caption-settings: only captions_enabled and caption_style
\* are handed to crud.update_voiceover.
UpdateVoiceoverCaptionSettings ==
    /\ \E body \in CaptionSettings :
          voiceover' = [voiceover EXCEPT !.captions_enabled = body[1],
                                         !.caption_style = body[2]]
    /\ UNCHANGED <<scenes, videos, task, cv, cap, pool, images, iterations>>

\* scene_map.get(t["scene_id"]) and the image lookup: the position of the
\* scene with a usable image file, 0 when the entry is skipped.
UsableScene(t) ==
    IF \E i \in 1..Len(scenes) : scenes[i].id = t.scene_id /\ scenes[i].image_ok
    THEN CHOOSE i \in 1..Len(scenes) : scenes[i].id = t.scene_id /\ scenes[i].image_ok
    ELSE 0

\* EntryDuration without the floor.
EntryDuration_NoFloor(t) == t.end_time - t.start_time

\* duration = t["end_time"] - t["start_time"]; if duration <= 0: duration = 1.0
EntryDuration(t) ==
    IF t.end_time - t.start_time <= 0 THEN DurationFloor
    ELSE t.end_time - t.start_time

\* The loop "for t in timings" of render_video_task.
RECURSIVE BuildSceneEntries(_)
BuildSceneEntries(timings) ==
    IF timings = <<>> THEN <<>>
    ELSE LET t == Head(timings)
         IN  IF UsableScene(t) = 0 THEN BuildSceneEntries(Tail(timings))
             ELSE <<[image_path |-> scenes[UsableScene(t)].id,
                     duration |-> EntryDuration(t),
                     transition_type |-> t.transition_type,
                     transition_duration |-> t.transition_duration]>>
                  \o BuildSceneEntries(Tail(timings))

\* generate_captions_ass is called with caption_alignment and
\* caption_margin_v, which it does not accept: the call raises TypeError.
CaptionCallRaises == voiceover.captions_enabled /\ voiceover.alignment_data # <<>>

RenderError(error) ==
    /\ task' = TaskDone("render_video", "error", error)
    /\ UNCHANGED videos

\* render_video_task.  crud.create_video commits the record with the
\* column default status "pending".  makedirs_ok = FALSE: os.makedirs of
\* the output directory raises, outside the inner try, and the outer except
\* returns the error.  ffmpeg_ok = FALSE: create_video_with_transitions
\* raises (an encoder step fails or the binary is missing).
RenderVideoTask ==
    /\ Len(videos) < MaxVideos
    /\ LET scene_entries == BuildSceneEntries(voiceover.scene_timings)
       IN  IF voiceover.status # "ready" THEN RenderError("Voiceover not ready")
           ELSE IF scenes = <<>> THEN RenderError("No scenes found")
           ELSE IF voiceover.scene_timings = <<>>
           THEN RenderError("No scene timings found")
           ELSE IF scene_entries = <<>>
           THEN RenderError("No valid scene images found")
           ELSE IF CaptionCallRaises THEN RenderError("TypeError")
           ELSE \E makedirs_ok \in BOOLEAN, ffmpeg_ok \in BOOLEAN :
                   IF ~makedirs_ok
                   THEN /\ videos' = Append(videos, [status |-> "pending",
                                                     file_path |-> FALSE])
                        /\ task' = [TaskDone("render_video", "error", "OSError")
                                      EXCEPT !.timings = voiceover.scene_timings,
                                             !.scene_entries = scene_entries]
                   ELSE IF ffmpeg_ok
                   THEN /\ videos' = Append(videos, [status |-> "approved",
                                                     file_path |-> TRUE])
                        /\ task' = [TaskDone("render_video", "ok", "none") EXCEPT
                                      !.timings = voiceover.scene_timings,
                                      !.scene_entries = scene_entries,
                                      !.segment_starts = SegmentStarts(scene_entries),
                                      !.video_length = VideoLength(scene_entries)]
                   ELSE /\ videos' = Append(videos, [status |-> "rejected",
                                                     file_path |-> FALSE])
                        /\ task' = [TaskDone("render_video", "error", "ffmpeg")
                                      EXCEPT !.timings = voiceover.scene_timings,
                                             !.scene_entries = scene_entries]
    /\ UNCHANGED <<scenes, voiceover, cv, cap, pool, images, iterations>>

Init ==
    /\ pool = PoolIdle
    /\ images = <<>>
    /\ iterations = <<>>
    /\ scenes \in SceneLists
    /\ voiceover = NewVoiceover
    /\ videos = <<>>
    /\ task = NoTask
    /\ cv = CvIdle
    /\ cap = CapIdle

Next ==
    \/ GenerateVoiceoverTask
    \/ UpdateVoiceoverSceneTimings
    \/ UpdateVoiceoverCaptionSettings
    \/ RenderVideoTask

Spec == Init /\ [][Next]_vars

----------------------------------------------------------------------------
(* One call of create_video_with_transitions, step by step *)

RenderEntries ==
    {[image_path |-> 1, duration |-> d, transition_type |-> tr[1],
      transition_duration |-> tr[2]] :
        d \in {400, 1000},
        tr \in {<<"cut", 0>>, <<"cut", FadeMs>>, <<"fade", FadeMs>>,
                <<"fade_to_black", LongFadeMs>>}}

EntryLists == UNION {[1..n -> RenderEntries] : n \in 0..MaxEntries}

\* CvRaise without the finally clause.
CvRaise_KeepTempDir == [cv EXCEPT !.pc = "failed", !.result = "raised"]

\* finally: shutil.rmtree(temp_dir, ignore_errors=True)
CvRaise == [cv EXCEPT !.pc = "failed", !.temp_dir = FALSE, !.result = "raised"]

\* if not scene_entries: raise ValueError; temp_dir = tempfile.mkdtemp(...)
CvEnter ==
    /\ cv.pc = "call"
    /\ cv' = IF cv.scene_entries = <<>>
             THEN [cv EXCEPT !.pc = "failed", !.result = "raised"]
             ELSE [cv EXCEPT !.pc = "segments", !.temp_dir = TRUE]
    /\ UNCHANGED <<scenes, voiceover, videos, task, cap, pool, images, iterations>>

\* CvRenderSegment that leaves the loop one segment early.
CvRenderSegment_StopEarly ==
    /\ cv.pc = "segments"
    /\ \E ffmpeg_ok \in BOOLEAN :
          cv' = IF ~ffmpeg_ok THEN CvRaise
                ELSE [cv EXCEPT !.seg_done = @ + 1,
                                !.pc = IF cv.seg_done + 2 >= Len(cv.scene_entries)
                                       THEN "composite" ELSE "segments"]
    /\ UNCHANGED <<scenes, voiceover, videos, task, cap, pool, images, iterations>>

\* One iteration of the segment loop: ffmpeg renders seg_<i>.mp4.
CvRenderSegment ==
    /\ cv.pc = "segments"
    /\ \E ffmpeg_ok \in BOOLEAN :
          cv' = IF ~ffmpeg_ok THEN CvRaise
                ELSE [cv EXCEPT !.seg_done = @ + 1,
                                !.pc = IF cv.seg_done + 1 = Len(cv.scene_entries)
                                       THEN "composite" ELSE "segments"]
    /\ UNCHANGED <<scenes, voiceover, videos, task, cap, pool, images, iterations>>

\* _build_concat_video, first half: the segment list is written to a
\* NamedTemporaryFile(delete=False) outside temp_dir.
CvWriteConcatList ==
    /\ cv.pc = "composite"
    /\ ~UsesXfadeChain(cv.scene_entries)
    /\ cv' = [cv EXCEPT !.pc = "concat_list", !.list_file = TRUE]
    /\ UNCHANGED <<scenes, voiceover, videos, task, cap, pool, images, iterations>>

\* The ffmpeg run of _build_xfade_chain, or that of _build_concat_video with
\* its "finally: os.unlink(list_path)", into video_no_audio.mp4.
CvComposite ==
    /\ \/ cv.pc = "composite" /\ UsesXfadeChain(cv.scene_entries)
       \/ cv.pc = "concat_list"
    /\ \E ffmpeg_ok \in BOOLEAN :
          cv' = IF ~ffmpeg_ok THEN [CvRaise EXCEPT !.list_file = FALSE]
                ELSE [cv EXCEPT
                        !.list_file = FALSE,
                        !.path = IF UsesXfadeChain(cv.scene_entries)
                                 THEN "xfade" ELSE "concat",
                        !.filter_parts = IF UsesXfadeChain(cv.scene_entries)
                                         THEN _build_xfade_chain(cv.scene_entries)
                                         ELSE <<>>,
                        !.segment_starts = SegmentStarts(cv.scene_entries),
                        !.video_length = VideoLength(cv.scene_entries),
                        !.pc = IF cv.ass THEN "burn" ELSE "mux"]
    /\ UNCHANGED <<scenes, voiceover, videos, task, cap, pool, images, iterations>>

\* if ass_path and os.path.isfile(ass_path): burn the captions in.
CvBurnIn ==
    /\ cv.pc = "burn"
    /\ \E ffmpeg_ok \in BOOLEAN :
          cv' = IF ~ffmpeg_ok THEN CvRaise
                ELSE [cv EXCEPT !.burned = @ + 1, !.pc = "mux"]
    /\ UNCHANGED <<scenes, voiceover, videos, task, cap, pool, images, iterations>>

\* Audio mux, return output_path; the finally clause removes temp_dir.
CvMux ==
    /\ cv.pc = "mux"
    /\ \E ffmpeg_ok \in BOOLEAN :
          cv' = IF ~ffmpeg_ok THEN CvRaise
                ELSE [cv EXCEPT !.muxed = TRUE, !.pc = "done",
                                !.temp_dir = FALSE, !.result = "output_path"]
    /\ UNCHANGED <<scenes, voiceover, videos, task, cap, pool, images, iterations>>

InitCompose ==
    /\ pool = PoolIdle
    /\ images = <<>>
    /\ iterations = <<>>
    /\ scenes = <<>>
    /\ voiceover = NewVoiceover
    /\ videos = <<>>
    /\ task = NoTask
    /\ cap = CapIdle
    /\ \E entries \in EntryLists, ass \in BOOLEAN :
          cv = [CvIdle EXCEPT !.pc = "call", !.scene_entries = entries, !.ass = ass]

NextCompose ==
    \/ CvEnter
    \/ CvRenderSegment
    \/ CvWriteConcatList
    \/ CvComposite
    \/ CvBurnIn
    \/ CvMux

SpecCompose == InitCompose /\ [][NextCompose]_vars

----------------------------------------------------------------------------
(* The caption functions applied to bounded inputs *)

CharSeqs == UNION {[1..n -> {"a", "b", " ", "\n"}] : n \in 0..MaxChars}

\* n words "a", "bc", "a", ...
WordTexts(n) == [k \in 1..n |-> IF k % 2 = 1 THEN <<"a">> ELSE <<"b", "c">>]

CaptionTexts == CharSeqs \cup {JoinSpace(WordTexts(n)) : n \in 0..MaxWords}

\* A time list one element shorter (delta = -1) or longer (delta = 1).
Resize(times, delta) ==
    IF delta = 0 THEN times
    ELSE IF delta < 0 THEN SubSeq(times, 1, Len(times) - 1)
    ELSE Append(times, Len(times) * CharTicks)

\* Alignments of the data model, and alignments whose three lists differ
\* in length: nothing in the code checks the lengths of what it is handed.
CaptionAlignments ==
    {MakeAlignment(chars, p, g) :
        chars \in CaptionTexts, p \in TimingPatterns, g \in GapPositions}
    \cup {[MakeAlignment(chars, "uniform", 0) EXCEPT
               !.character_start_times_seconds = Resize(@, ds),
               !.character_end_times_seconds = Resize(@, de)] :
            chars \in CharSeqs, ds \in {-1, 0, 1}, de \in {-1, 0, 1}}

\* words = _group_chars_into_words(alignment)
GroupCharsIntoWords ==
    /\ cap.pc = "call"
    /\ cap' = IF GroupReadsOk(cap.alignment)
              THEN [cap EXCEPT !.pc = "grouped",
                               !.words = _group_chars_into_words(cap.alignment),
                               !.result = "words"]
              ELSE [cap EXCEPT !.pc = "raised", !.result = "IndexError"]
    /\ UNCHANGED <<scenes, voiceover, videos, task, cv, pool, images, iterations>>

\* generate_captions_ass(alignment, caption_style, output_ass_path)
GenerateCaptionsAss ==
    /\ cap.pc = "call"
    /\ \E caption_style \in {"word_highlight", "subtitle_chunks"} :
          cap' = IF CaptionsRaise(cap.alignment)
                 THEN [cap EXCEPT !.pc = "raised", !.caption_style = caption_style,
                                  !.result = "ValueError"]
                 ELSE [cap EXCEPT !.pc = "captions", !.caption_style = caption_style,
                                  !.words = _group_chars_into_words(cap.alignment),
                                  !.events = generate_captions_ass(cap.alignment,
                                                                   caption_style),
                                  !.result = "output_ass_path"]
    /\ UNCHANGED <<scenes, voiceover, videos, task, cv, pool, images, iterations>>

InitCaptions ==
    /\ pool = PoolIdle
    /\ images = <<>>
    /\ iterations = <<>>
    /\ scenes = <<>>
    /\ voiceover = NewVoiceover
    /\ videos = <<>>
    /\ task = NoTask
    /\ cv = CvIdle
    /\ \E alignment \in CaptionAlignments :
          cap = [CapIdle EXCEPT !.pc = "call", !.alignment = alignment]

NextCaptions == GroupCharsIntoWords \/ GenerateCaptionsAss

SpecCaptions == InitCaptions /\ [][NextCaptions]_vars

ExampleRaw == <<"3", ",", " ", "3", ",", " ", "0", ",", " ",
                "1", "0", "0", ",", " ", "5">>

\* Responses of the grouping service.
RawResponses ==
    UNION {[1..n -> {"0", "1", "3", "5", ",", " ", "x", "\n"}] : n \in 0..MaxRawLen}
    \cup {ExampleRaw}

\* auto_group_captions(words): the service call raises or answers raw.
AutoGroupCaptions ==
    /\ cap.pc = "call"
    /\ \E raises \in BOOLEAN, raw \in RawResponses :
          /\ raises => raw = <<>>
          /\ cap' = [cap EXCEPT !.pc = "boundaries", !.raises = raises, !.raw = raw,
                                !.boundaries = auto_group_captions(Len(cap.words),
                                                                   raises, raw),
                                !.result = "boundaries"]
    /\ UNCHANGED <<scenes, voiceover, videos, task, cv, pool, images, iterations>>

InitGroup ==
    /\ pool = PoolIdle
    /\ images = <<>>
    /\ iterations = <<>>
    /\ scenes = <<>>
    /\ voiceover = NewVoiceover
    /\ videos = <<>>
    /\ task = NoTask
    /\ cv = CvIdle
    /\ \E n \in 0..MaxGroupWords :
          LET alignment == MakeAlignment(JoinSpace(WordTexts(n)), "uniform", 0)
          IN  cap = [CapIdle EXCEPT !.pc = "call",
                                    !.alignment = alignment,
                                    !.words = _group_chars_into_words(alignment)]

NextGroup == AutoGroupCaptions

SpecGroup == InitGroup /\ [][NextGroup]_vars

----------------------------------------------------------------------------
(* _format_ass_time applied to times with millisecond resolution *)

\* Hours, minutes, seconds and milliseconds past the second, none of the
\* milliseconds midway between two hundredths.
FormatTimes ==
    {(((h * 60 + m) * 60 + s) * 1000 + ms) * (TicksPerSecond \div 1000) :
        h \in 0..MaxHours, m \in {0, 1, 59}, s \in {0, 1, 59},
        ms \in {0, 4, 250, 994, 996, 999}}

\* _format_ass_time(seconds)
FormatAssTime ==
    /\ cap.pc = "call"
    /\ cap' = [cap EXCEPT !.pc = "formatted",
                          !.stamp = _format_ass_time(cap.seconds),
                          !.result = "timestamp"]
    /\ UNCHANGED <<scenes, voiceover, videos, task, cv, pool, images, iterations>>

InitFormat ==
    /\ pool = PoolIdle
    /\ images = <<>>
    /\ iterations = <<>>
    /\ scenes = <<>>
    /\ voiceover = NewVoiceover
    /\ videos = <<>>
    /\ task = NoTask
    /\ cv = CvIdle
    /\ \E seconds \in FormatTimes :
          cap = [CapIdle EXCEPT !.pc = "call", !.seconds = seconds]

NextFormat == FormatAssTime

SpecFormat == InitFormat /\ [][NextFormat]_vars

----------------------------------------------------------------------------
(* The worker pool: main.render_video queues render_video_task, the worker  *)
(* processes of "celery worker --concurrency=2" take the queued messages   *)

\* voiceover.project_id: project p owns the voiceover with id p.
VoiceoverProject(voiceover_id) == voiceover_id

\* POST /api/projects/{project_id}/render-video: 404 unless the voiceover
\* belongs to the project, else render_video_task.delay(project_id, id).
RenderVideo ==
    /\ pool.requests < MaxRequests
    /\ \E project_id \in 1..MaxProjects, voiceover_id \in 1..MaxProjects :
          pool' = IF VoiceoverProject(voiceover_id) # project_id
                  THEN [pool EXCEPT !.requests = @ + 1, !.response = "404"]
                  ELSE [pool EXCEPT
                          !.requests = @ + 1,
                          !.response = "Video render started",
                          !.queue = Append(@, [name |-> "render_video",
                                               project_id |-> project_id,
                                               voiceover_id |-> voiceover_id,
                                               pc |-> "queued"])]
    /\ UNCHANGED <<scenes, voiceover, videos, task, cv, cap, images, iterations>>

\* A free worker process takes the oldest message of the queue.
WorkerReceive ==
    /\ pool.queue # <<>>
    /\ \E w \in Workers :
          /\ pool.running[w] = NoJob
          /\ pool' = [pool EXCEPT !.queue = Tail(@),
                                  !.running[w] = [Head(pool.queue) EXCEPT !.pc = "start"]]
    /\ UNCHANGED <<scenes, voiceover, videos, task, cv, cap, images, iterations>>

\* render_video_task up to generate_captions_ass, which writes
\* captions_<voiceover_id>.ass.
RenderWriteCaptions ==
    /\ \E w \in Workers :
          /\ pool.running[w].pc = "start"
          /\ pool' = [pool EXCEPT !.running[w].pc = "captions"]
    /\ UNCHANGED <<scenes, voiceover, videos, task, cv, cap, images, iterations>>

\* The rest of render_video_task; the worker process is free again.
RenderReturn ==
    /\ \E w \in Workers :
          /\ pool.running[w].pc = "captions"
          /\ pool' = [pool EXCEPT !.running[w] = NoJob]
    /\ UNCHANGED <<scenes, voiceover, videos, task, cv, cap, images, iterations>>

InitWorkers ==
    /\ pool = PoolIdle
    /\ images = <<>>
    /\ iterations = <<>>
    /\ scenes = <<>>
    /\ voiceover = NewVoiceover
    /\ videos = <<>>
    /\ task = NoTask
    /\ cv = CvIdle
    /\ cap = CapIdle

NextWorkers == RenderVideo \/ WorkerReceive \/ RenderWriteCaptions \/ RenderReturn

SpecWorkers == InitWorkers /\ [][NextWorkers]_vars

----------------------------------------------------------------------------
(* Scene rows of one project: tasks.segment_project_task,                   *)
(* main.update_segmentation_preview, crud.insert_scene_at,                 *)
(* crud.delete_scene, crud.update_scene.  scenes holds the rows in the     *)
(* order of their creation, each with its order column.                    *)

SceneRow(id, text, order) ==
    [id |-> id, text |-> text, order |-> order, image_ok |-> FALSE,
     approved_image_id |-> None]

\* The primary key the database gives a new row.
NextSceneId(rows) ==
    IF rows = <<>> THEN 1
    ELSE 1 + (CHOOSE m \in {rows[i].id : i \in 1..Len(rows)} :
                 \A i \in 1..Len(rows) : rows[i].id <= m)

create_scene(rows, text, order) == Append(rows, SceneRow(NextSceneId(rows), text, order))

\* Deduplicate by (text.strip(), order), keeping the first occurrence.
RECURSIVE UniqueScenesData(_, _)
UniqueScenesData(scenes_data, seen) ==
    IF scenes_data = <<>> THEN <<>>
    ELSE LET s == Head(scenes_data)
             key == <<Strip(s.text), s.order>>
         IN  IF key \in seen THEN UniqueScenesData(Tail(scenes_data), seen)
             ELSE <<s>> \o UniqueScenesData(Tail(scenes_data), seen \cup {key})

\* for scene_data in ...: crud.create_scene(text, order)
RECURSIVE CreateScenes(_, _)
CreateScenes(rows, scenes_data) ==
    IF scenes_data = <<>> THEN rows
    ELSE CreateScenes(create_scene(rows, Head(scenes_data).text, Head(scenes_data).order),
                      Tail(scenes_data))

\* What segment_script returns: the scenes numbered from 1 as the prompt
\* asks (and as the paragraph fallback numbers them), possibly with one
\* scene returned twice.
NumberedScenes ==
    UNION {{[i \in 1..n |-> [text |-> texts[i], order |-> i]] :
                texts \in [1..n -> {<<"a">>, <<"a", " ">>}]} : n \in 0..MaxScenes}

Repeated(scenes_data, j) ==
    SubSeq(scenes_data, 1, j) \o SubSeq(scenes_data, j, Len(scenes_data))

SegmentResponses ==
    NumberedScenes
    \cup UNION {{Repeated(d, j) : j \in 1..Len(d)} : d \in NumberedScenes}

\* segment_project_task: delete the project's scenes, segment, deduplicate,
\* create.  segment_ok = FALSE: segment_script raises after the delete.
SegmentProjectTask ==
    /\ \E segment_ok \in BOOLEAN, scenes_data \in SegmentResponses :
          scenes' = IF segment_ok
                    THEN CreateScenes(<<>>, UniqueScenesData(scenes_data, {}))
                    ELSE <<>>
    /\ UNCHANGED <<voiceover, videos, task, cv, cap, pool, images, iterations>>

\* PUT /segmentation-preview: segments are the stripped non-empty pieces of
\* the preview text; none: 400 and nothing changes.
UpdateSegmentationPreview ==
    /\ \E n \in 0..MaxScenes :
          \E segments \in [1..n -> {<<"a">>}] :
              scenes' = IF segments = <<>> THEN scenes
                        ELSE CreateScenes(<<>>, [i \in 1..n |->
                                 [text |-> segments[i], order |-> (i - 1) + 1]])
    /\ UNCHANGED <<voiceover, videos, task, cv, cap, pool, images, iterations>>

\* crud.insert_scene_at
insert_scene_at(rows, after_order, text) ==
    LET shifted == [i \in 1..Len(rows) |->
                       IF rows[i].order > after_order
                       THEN [rows[i] EXCEPT !.order = @ + 1]
                       ELSE rows[i]]
    IN  Append(shifted, SceneRow(NextSceneId(rows), text, after_order + 1))

\* POST /scenes/insert; after_order of InsertSceneRequest is any integer.
InsertScene ==
    /\ Len(scenes) < MaxScenes
    /\ NextSceneId(scenes) <= MaxSceneId
    /\ \E after_order \in (0 - 1)..(MaxScenes + 1) :
          scenes' = insert_scene_at(scenes, after_order, <<>>)
    /\ UNCHANGED <<voiceover, videos, task, cv, cap, pool, images, iterations>>

\* The rows without the one with this id.
RowsWithout(rows, scene_id) == SelectSeq(rows, LAMBDA r : r.id # scene_id)

\* "for idx, s in enumerate(remaining, start=1): s.order = idx" for the
\* remaining rows ordered by order; rows of equal order come in any order.
Renumberings(rows) ==
    {f \in [1..Len(rows) -> 1..Len(rows)] :
        /\ \A i, j \in 1..Len(rows) : i # j => f[i] # f[j]
        /\ \A i, j \in 1..Len(rows) : rows[i].order < rows[j].order => f[i] < f[j]}

\* DELETE /scenes/{scene_id}: crud.delete_scene, 404 for an unknown id.
DeleteScene ==
    /\ \E scene_id \in 1..MaxSceneId :
          LET remaining == RowsWithout(scenes, scene_id)
          IN  \E f \in Renumberings(remaining) :
                  scenes' = [i \in 1..Len(remaining) |->
                                [remaining[i] EXCEPT !.order = f[i]]]
    /\ UNCHANGED <<voiceover, videos, task, cv, cap, pool, images, iterations>>

\* PUT /scenes/{scene_id}: crud.update_scene sets the fields of the body,
\* order among them; 404 for an unknown id.
UpdateScene ==
    /\ \E i \in 1..Len(scenes), set_order \in BOOLEAN, order \in 1..MaxScenes,
          set_text \in BOOLEAN :
          scenes' = [scenes EXCEPT
                       ![i].order = IF set_order THEN order ELSE @,
                       ![i].text = IF set_text THEN <<"a">> ELSE @]
    /\ UNCHANGED <<voiceover, videos, task, cv, cap, pool, images, iterations>>

InitScenes ==
    /\ pool = PoolIdle
    /\ images = <<>>
    /\ iterations = <<>>
    /\ scenes = <<>>
    /\ voiceover = NewVoiceover
    /\ videos = <<>>
    /\ task = NoTask
    /\ cv = CvIdle
    /\ cap = CapIdle

NextScenes ==
    \/ SegmentProjectTask
    \/ UpdateSegmentationPreview
    \/ InsertScene
    \/ DeleteScene
    \/ UpdateScene

SpecScenes == InitScenes /\ [][NextScenes]_vars

----------------------------------------------------------------------------
(* Image generation: tasks.generate_image_task and the poll loop of         *)
(* ai_services.generate_image_with_leonardo.  task is the running task.    *)

MaxImages == 2

max_attempts == 60

\* crud.create_image: file_path is NULL, status has the column default.
ImageRow(id, scene_id) ==
    [id |-> id, scene_id |-> scene_id, file_path |-> FALSE, status |-> "pending"]

\* crud.update_image(image_id, file_path=..., status=...)
update_image(rows, image_id, file_path, status) ==
    [i \in 1..Len(rows) |->
        IF rows[i].id = image_id
        THEN [rows[i] EXCEPT !.file_path = file_path, !.status = status]
        ELSE rows[i]]

ImageTaskIdle ==
    [pc |-> "idle", scene_id |-> 0, image_id |-> 0, attempt |-> 0, requests |-> 0,
     response |-> "none", outcome |-> "none", saved |-> FALSE]

\* except Exception: crud.update_image(status="rejected"); return {"error"}
ImageTaskRejected(outcome) ==
    /\ images' = update_image(images, task.image_id, FALSE, "rejected")
    /\ task' = [task EXCEPT !.pc = "rejected", !.outcome = outcome]

\* generate_image_task up to the call of generate_image_with_leonardo: the
\* scene lookup, crud.create_image and os.makedirs(output_dir), which is
\* outside the try block (makedirs_ok = FALSE: it raises and the task ends
\* with that exception).
GenerateImageTask ==
    /\ task.pc \in {"idle", "returned", "raised", "done", "rejected"}
    /\ Len(images) < MaxImages
    /\ \E scene_id \in 1..(Len(scenes) + 1), makedirs_ok \in BOOLEAN :
          IF ~\E i \in 1..Len(scenes) : scenes[i].id = scene_id
          THEN /\ task' = [ImageTaskIdle EXCEPT !.pc = "returned",
                                                  !.scene_id = scene_id,
                                                  !.outcome = "Scene not found"]
               /\ UNCHANGED images
          ELSE /\ images' = Append(images, ImageRow(Len(images) + 1, scene_id))
               /\ task' = [ImageTaskIdle EXCEPT
                             !.pc = IF makedirs_ok THEN "submit" ELSE "raised",
                             !.scene_id = scene_id,
                             !.image_id = Len(images) + 1,
                             !.outcome = IF makedirs_ok THEN "none" ELSE "OSError"]
    /\ UNCHANGED <<scenes, voiceover, videos, cv, cap, pool, iterations>>

\* The generation request: a status other than 200, an API error body or a
\* missing generationId raises ValueError.
LeonardoSubmit ==
    /\ task.pc = "submit"
    /\ \E accepted \in BOOLEAN :
          IF accepted
          THEN task' = [task EXCEPT !.pc = "poll"] /\ UNCHANGED images
          ELSE ImageTaskRejected("ValueError")
    /\ UNCHANGED <<scenes, voiceover, videos, cv, cap, pool, iterations>>

\* PollOutcome that keeps polling when the provider reports a failure.
PollOutcome_IgnoreFailed(response, attempt) ==
    IF response = "http_error" THEN "request_error"
    ELSE IF response = "complete" THEN "download"
    ELSE IF attempt + 1 = max_attempts THEN "TimeoutError"
    ELSE "continue"

\* The body of "for attempt in range(max_attempts)" for one status
\* response, and the raise TimeoutError after the last iteration.
PollOutcome(response, attempt) ==
    IF response = "http_error" THEN "request_error"
    ELSE IF response = "complete" THEN "download"
    ELSE IF response = "failed" THEN "generation_failed"
    ELSE IF attempt + 1 = max_attempts THEN "TimeoutError"
    ELSE "continue"

\* One iteration of the poll loop: time.sleep(5), one status request.  The
\* request brings an HTTP or connection error (raise_for_status), a
\* response that lists a generated image URL, a response with status
\* failed/error and no image, or neither.
LeonardoPoll ==
    /\ task.pc = "poll"
    /\ \E response \in {"http_error", "complete", "failed", "pending"} :
          LET outcome == PollOutcome(response, task.attempt)
              polled == [task EXCEPT !.requests = @ + 1, !.response = response]
          IN  IF outcome = "continue"
              THEN task' = [polled EXCEPT !.attempt = @ + 1] /\ UNCHANGED images
              ELSE IF outcome = "download"
              THEN task' = [polled EXCEPT !.pc = "download"] /\ UNCHANGED images
              ELSE /\ images' = update_image(images, task.image_id, FALSE, "rejected")
                   /\ task' = [polled EXCEPT !.pc = "rejected", !.outcome = outcome]
    /\ UNCHANGED <<scenes, voiceover, videos, cv, cap, pool, iterations>>

\* The image download and the file write; on success the function returns
\* output_path and the task stores file_path with status "pending".
LeonardoDownload ==
    /\ task.pc = "download"
    /\ \E download_ok \in BOOLEAN :
          IF download_ok
          THEN /\ images' = update_image(images, task.image_id, TRUE, "pending")
               /\ task' = [task EXCEPT !.pc = "done", !.saved = TRUE,
                                       !.outcome = "output_path"]
          ELSE ImageTaskRejected("request_error")
    /\ UNCHANGED <<scenes, voiceover, videos, cv, cap, pool, iterations>>

InitImage ==
    /\ pool = PoolIdle
    /\ images = <<>>
    /\ iterations = <<>>
    /\ scenes = <<SceneRow(1, <<"a">>, 1)>>
    /\ voiceover = NewVoiceover
    /\ videos = <<>>
    /\ task = ImageTaskIdle
    /\ cv = CvIdle
    /\ cap = CapIdle

NextImage ==
    \/ GenerateImageTask
    \/ LeonardoSubmit
    \/ LeonardoPoll
    \/ LeonardoDownload

SpecImage == InitImage /\ [][NextImage]_vars

----------------------------------------------------------------------------
(* segment_project_task on the worker pool: main.approve_project queues one *)
(* task per call; each worker runs its task step by step, every database   *)
(* call committing on its own.  pool holds the queue and the workers.      *)

MaxSegments == 2

SegmentJobIdle == [pc |-> "idle", todo |-> <<>>]

\* Responses of segment_script of at most MaxSegments scenes.
TaskResponses == {d \in SegmentResponses : Len(d) <= MaxSegments}

\* POST /approve: project.status = "approved"; segment_project_task.delay
ApproveProject ==
    /\ pool.approvals < MaxRequests
    /\ pool' = [pool EXCEPT !.approvals = @ + 1, !.queue = @ + 1]
    /\ UNCHANGED <<scenes, voiceover, videos, task, cv, cap, images, iterations>>

\* An idle worker takes the next task from the queue.
SegmentReceive(w) ==
    /\ pool.queue > 0
    /\ pool.running[w].pc = "idle"
    /\ pool' = [pool EXCEPT !.queue = @ - 1, !.running[w].pc = "delete"]
    /\ UNCHANGED <<scenes, voiceover, videos, task, cv, cap, images, iterations>>

\* crud.delete_scenes_by_project: every scene of the project is deleted and
\* the deletion committed.
SegmentDeleteScenes(w) ==
    /\ pool.running[w].pc = "delete"
    /\ scenes' = <<>>
    /\ pool' = [pool EXCEPT !.running[w].pc = "segment"]
    /\ UNCHANGED <<voiceover, videos, task, cv, cap, images, iterations>>

\* ai_services.segment_script and the deduplication loop.  segment_ok =
\* FALSE: the call raises and the task ends.
SegmentScript(w) ==
    /\ pool.running[w].pc = "segment"
    /\ \E segment_ok \in BOOLEAN, scenes_data \in TaskResponses :
          LET unique_scenes_data == UniqueScenesData(scenes_data, {})
          IN  pool' = IF ~segment_ok
                      THEN [pool EXCEPT !.running[w] = SegmentJobIdle,
                                        !.failed = @ + 1]
                      ELSE IF unique_scenes_data = <<>>
                      THEN [pool EXCEPT !.running[w] = SegmentJobIdle,
                                        !.completed = @ + 1]
                      ELSE [pool EXCEPT !.running[w].pc = "create",
                                        !.running[w].todo = unique_scenes_data]
    /\ UNCHANGED <<scenes, voiceover, videos, task, cv, cap, images, iterations>>

\* One iteration of "for scene_data in unique_scenes_data": crud.create_scene
\* adds the row and commits.
SegmentCreateScene(w) ==
    /\ pool.running[w].pc = "create"
    /\ LET scene_data == Head(pool.running[w].todo)
           rest == Tail(pool.running[w].todo)
       IN  /\ scenes' = create_scene(scenes, scene_data.text, scene_data.order)
           /\ pool' = IF rest = <<>>
                      THEN [pool EXCEPT !.running[w] = SegmentJobIdle,
                                        !.completed = @ + 1]
                      ELSE [pool EXCEPT !.running[w].todo = rest]
    /\ UNCHANGED <<voiceover, videos, task, cv, cap, images, iterations>>

InitSegment ==
    /\ pool = [queue |-> 0, approvals |-> 0,
               running |-> [w \in Workers |-> SegmentJobIdle],
               completed |-> 0, failed |-> 0]
    /\ images = <<>>
    /\ iterations = <<>>
    /\ scenes = <<>>
    /\ voiceover = NewVoiceover
    /\ videos = <<>>
    /\ task = NoTask
    /\ cv = CvIdle
    /\ cap = CapIdle

NextSegment ==
    \/ ApproveProject
    \/ \E w \in Workers : SegmentReceive(w)
    \/ \E w \in Workers : SegmentDeleteScenes(w)
    \/ \E w \in Workers : SegmentScript(w)
    \/ \E w \in Workers : SegmentCreateScene(w)

SpecSegment == InitSegment /\ [][NextSegment]_vars

----------------------------------------------------------------------------
(* Script revision: main.iterate_script, crud.create_script_iteration,      *)
(* crud.get_last_script_iterations_feedback.  Requests run in the server's *)
(* thread pool, each with its own database session; task holds the         *)
(* project's script and the requests in progress.                          *)

MaxIterateCalls == 6

MaxThreads == 2

SCRIPT_ITERATION_WINDOW_SIZE == 5

Threads == 1..MaxThreads

\* The feedback text of the n-th call and the script revised from it.
FeedbackOf(n) == <<"feedback", n>>

RevisedOf(n) == <<"revised", n>>

RequestIdle ==
    [pc |-> "idle", call |-> 0, seen |-> 0, previous_feedbacks |-> <<>>, count |-> 0]

\* The row positions in an order that ORDER BY round_number DESC can
\* return: rows of equal round_number come in either order.
RECURSIVE DescendingOrders(_, _)
DescendingOrders(rows, S) ==
    IF S = {} THEN {<<>>}
    ELSE UNION {{<<i>> \o rest : rest \in DescendingOrders(rows, S \ {i})} :
                i \in {i \in S : \A j \in S : rows[j].round_number
                                                 <= rows[i].round_number}}

Reversed(s) == [i \in 1..Len(s) |-> s[Len(s) + 1 - i]]

\* crud.get_last_script_iterations_feedback: the user_feedback column of
\* the first k rows by descending round_number, reversed.
get_last_script_iterations_feedback(rows, k) ==
    {Reversed([i \in 1..Min(k, Len(rows)) |-> rows[o[i]].user_feedback]) :
        o \in DescendingOrders(rows, 1..Len(rows))}

\* iterate_script up to the revision call: the project lookup and the
\* previous feedbacks.
IterateScript(r) ==
    /\ task.requests[r].pc = "idle"
    /\ task.calls < MaxIterateCalls
    /\ \E previous_feedbacks \in
              get_last_script_iterations_feedback(iterations,
                                                  SCRIPT_ITERATION_WINDOW_SIZE) :
          task' = [task EXCEPT
                     !.calls = @ + 1,
                     !.requests[r] = [pc |-> "revise", call |-> task.calls + 1,
                                      seen |-> Len(iterations),
                                      previous_feedbacks |-> previous_feedbacks,
                                      count |-> 0]]
    /\ UNCHANGED <<scenes, voiceover, videos, cv, cap, pool, images, iterations>>

\* ai_services.revise_script_with_feedback; revise_ok = FALSE: the call
\* raises and the endpoint answers 500.
ReviseScript(r) ==
    /\ task.requests[r].pc = "revise"
    /\ \E revise_ok \in BOOLEAN :
          task' = IF revise_ok THEN [task EXCEPT !.requests[r].pc = "create"]
                  ELSE [task EXCEPT !.requests[r] = RequestIdle]
    /\ UNCHANGED <<scenes, voiceover, videos, cv, cap, pool, images, iterations>>

\* create_script_iteration, the count query.
CountIterations(r) ==
    /\ task.requests[r].pc = "create"
    /\ task' = [task EXCEPT !.requests[r].pc = "insert",
                            !.requests[r].count = Len(iterations)]
    /\ UNCHANGED <<scenes, voiceover, videos, cv, cap, pool, images, iterations>>

\* create_script_iteration, the insert with round_number = count + 1, and
\* crud.update_project(script_content=revised).
InsertIteration(r) ==
    /\ task.requests[r].pc = "insert"
    /\ iterations' = Append(iterations,
                            [round_number |-> task.requests[r].count + 1,
                             user_feedback |-> FeedbackOf(task.requests[r].call),
                             revised_script |-> RevisedOf(task.requests[r].call)])
    /\ task' = [task EXCEPT !.requests[r] = RequestIdle,
                            !.script_content = RevisedOf(task.requests[r].call)]
    /\ UNCHANGED <<scenes, voiceover, videos, cv, cap, pool, images>>

InitIterate ==
    /\ pool = PoolIdle
    /\ images = <<>>
    /\ iterations = <<>>
    /\ scenes = <<>>
    /\ voiceover = NewVoiceover
    /\ videos = <<>>
    /\ task = [calls |-> 0, script_content |-> <<"script">>,
               requests |-> [r \in Threads |-> RequestIdle]]
    /\ cv = CvIdle
    /\ cap = CapIdle

NextIterate ==
    \/ \E r \in Threads : IterateScript(r)
    \/ \E r \in Threads : ReviseScript(r)
    \/ \E r \in Threads : CountIterations(r)
    \/ \E r \in Threads : InsertIteration(r)

SpecIterate == InitIterate /\ [][NextIterate]_vars

----------------------------------------------------------------------------
(* Image approval: main.approve_image, main.reject_image, PUT /scenes/{id}  *)
(* with approved_image_id, and generate_image_task as one step.  pool      *)
(* counts the generation tasks that reject_image has queued.               *)

\* Two scenes, each with one generated image awaiting review.
InitialImages ==
    <<[ImageRow(1, 1) EXCEPT !.file_path = TRUE],
      [ImageRow(2, 2) EXCEPT !.file_path = TRUE]>>

\* POST /images/{image_id}/approve; 404 for an unknown id.
ApproveImage ==
    /\ \E i \in 1..Len(images) :
          /\ images' = [images EXCEPT ![i].status = "approved"]
          /\ scenes' = [k \in 1..Len(scenes) |->
                           IF scenes[k].id = images[i].scene_id
                           THEN [scenes[k] EXCEPT !.approved_image_id = images[i].id]
                           ELSE scenes[k]]
    /\ UNCHANGED <<voiceover, videos, task, cv, cap, pool, iterations>>

\* POST /images/{image_id}/reject: the status is set and a new
\* generate_image_task queued for the image's scene.
RejectImage ==
    /\ pool.requests < MaxRequests
    /\ \E i \in 1..Len(images) :
          images' = [images EXCEPT ![i].status = "rejected"]
    /\ pool' = [pool EXCEPT !.requests = @ + 1, !.queue = @ + 1]
    /\ UNCHANGED <<scenes, voiceover, videos, task, cv, cap, iterations>>

\* A queued generate_image_task from its start to its end: the new record
\* ends with a file and status "pending", or with status "rejected".
RunGenerateImageTask ==
    /\ pool.queue > 0
    /\ \E k \in 1..Len(scenes), saved \in BOOLEAN :
          images' = IF Len(images) < Len(InitialImages) + MaxImages
                    THEN Append(images,
                                [ImageRow(Len(images) + 1, scenes[k].id) EXCEPT
                                    !.file_path = saved,
                                    !.status = IF saved THEN "pending" ELSE "rejected"])
                    ELSE images
    /\ pool' = [pool EXCEPT !.queue = @ - 1]
    /\ UNCHANGED <<scenes, voiceover, videos, task, cv, cap, iterations>>

\* PUT /scenes/{scene_id} with approved_image_id in the body: crud.update_scene
\* stores the id (the foreign key admits any existing image, None clears it).
UpdateSceneApprovedImage ==
    /\ \E k \in 1..Len(scenes),
          approved_image_id \in {images[i].id : i \in 1..Len(images)} \cup {None} :
          scenes' = [scenes EXCEPT ![k].approved_image_id = approved_image_id]
    /\ UNCHANGED <<voiceover, videos, task, cv, cap, pool, images, iterations>>

InitApproval ==
    /\ pool = [queue |-> 0, requests |-> 0]
    /\ images = InitialImages
    /\ iterations = <<>>
    /\ scenes = <<SceneRow(1, <<"a">>, 1), SceneRow(2, <<"a">>, 2)>>
    /\ voiceover = NewVoiceover
    /\ videos = <<>>
    /\ task = NoTask
    /\ cv = CvIdle
    /\ cap = CapIdle

NextApproval ==
    \/ ApproveImage
    \/ RejectImage
    \/ RunGenerateImageTask
    \/ UpdateSceneApprovedImage

SpecApproval == InitApproval /\ [][NextApproval]_vars

----------------------------------------------------------------------------
(* Claims about the Transition Compositor *)

SumDurations(entries) == SumSeq(Durations(entries))

SumAllTransitionDurations(entries) ==
    SumSeq([i \in 1..Len(entries) |-> entries[i].transition_duration])

\* What a transition between two adjacent segments takes off the timeline.
EffectiveTransition(e) ==
    IF e.transition_type # "cut" /\ e.transition_duration > 0
    THEN e.transition_duration ELSE 0

SumEffectiveTransitions(entries) ==
    SumSeq([i \in 1..(Len(entries) - 1) |-> EffectiveTransition(entries[i])])

\* Start of segment i when every segment before it gives up its transition.
UnclampedStart(entries, i) ==
    SumSeq([j \in 1..(i - 1) |-> entries[j].duration - EffectiveTransition(entries[j])])

NoOffsetClamped(entries) == \A i \in 2..Len(entries) : UnclampedStart(entries, i) >= 0

\* C1 as stated: the composited video is as long as the sum of the segment
\* durations when all transitions are cut, and as long as that sum minus the
\* sum of all entries' transition durations when any (non-cut) transition
\* has a duration > 0.
C1_TotalDurationAsStated ==
    cv.path # "none" =>
        LET e == cv.scene_entries
        IN  /\ (\A i \in 1..Len(e) : e[i].transition_type = "cut")
                   => cv.video_length = SumDurations(e)
            /\ (\E i \in 1..Len(e) : /\ e[i].transition_type # "cut"
                                       /\ e[i].transition_duration > 0)
                   => cv.video_length = SumDurations(e) - SumAllTransitionDurations(e)

\* C1 amended: the composited video is as long as the sum of the segment
\* durations when no entry but the last has a non-cut transition of positive
\* duration; otherwise it is that sum minus the transition durations of the
\* entries other than the last that are not cut and have duration > 0,
\* provided no overlap offset is clamped at 0, and never shorter than that.
C1_TotalDuration ==
    cv.path # "none" =>
        LET e == cv.scene_entries
        IN  /\ SumEffectiveTransitions(e) = 0 => cv.video_length = SumDurations(e)
            /\ NoOffsetClamped(e) =>
                   cv.video_length = SumDurations(e) - SumEffectiveTransitions(e)
            /\ cv.video_length >= SumDurations(e) - SumEffectiveTransitions(e)
            /\ (cv.path = "concat") = (SumEffectiveTransitions(e) = 0)

C1_Witness ==
    /\ cv.pc = "done"
    /\ cv.path = "xfade"
    /\ Len(cv.scene_entries) = 3
    /\ NoOffsetClamped(cv.scene_entries)
    /\ cv.scene_entries[3].transition_duration > 0
    /\ cv.scene_entries[2].transition_type = "cut"
    /\ cv.scene_entries[2].transition_duration > 0
    /\ SumEffectiveTransitions(cv.scene_entries) = FadeMs
    /\ cv.video_length = SumDurations(cv.scene_entries) - FadeMs

----------------------------------------------------------------------------
(* Claims about the Scene Timing Computer and the rendered timeline *)

StoredAlignment == voiceover.alignment_data[1]

ComputedTimings == compute_scene_timings(SceneTexts, SceneIds, StoredAlignment)

\* The stored timing entries are the ones compute_scene_timings produced.
TimingsAsComputed ==
    /\ voiceover.status = "ready"
    /\ voiceover.scene_timings = ComputedTimings

TimingOfScene(timings, scene_id) ==
    timings[CHOOSE i \in 1..Len(timings) : timings[i].scene_id = scene_id]

\* The documented precondition of compute_scene_timings: the Alignment is
\* that of the narration, the scene texts joined by single spaces.
AlignmentOfNarration == StoredAlignment.characters = JoinSpace(SceneTexts)

NonEmptyTexts == \A i \in 1..Len(scenes) : scenes[i].text # <<>>

\* Every character of the narration, separators included, takes 0.1 s.
UniformNarrationAlignment ==
    LET a == StoredAlignment
        narration == JoinSpace(SceneTexts)
    IN  /\ a.characters = narration
        /\ Len(a.character_start_times_seconds) = Len(narration)
        /\ Len(a.character_end_times_seconds) = Len(narration)
        /\ \A k \in 1..Len(narration) :
              /\ a.character_start_times_seconds[k] = (k - 1) * CharTicks
              /\ a.character_end_times_seconds[k] = k * CharTicks

\* C2 as stated: in the composited video the segment of every scene begins
\* at the scene's start_time in the narration, with cuts and with
\* cross-fades.  Stated here for its plainest case: non-empty scene texts,
\* an image for every scene, the uniform Alignment of the narration, the
\* times as computed.
C2_SegmentsStartAtNarrationTime ==
    (/\ task.name = "render_video"
     /\ task.result = "ok"
     /\ NonEmptyTexts
     /\ \A i \in 1..Len(scenes) : scenes[i].image_ok
     /\ UniformNarrationAlignment
     /\ \A i \in 1..Len(task.timings) :
           /\ task.timings[i].start_time = ComputedTimings[i].start_time
           /\ task.timings[i].end_time = ComputedTimings[i].end_time)
    => \A k \in 1..Len(task.scene_entries) :
           task.segment_starts[k] =
               TimingOfScene(task.timings, task.scene_entries[k].image_path).start_time

\* C3 as stated: every entry returned by compute_scene_timings has
\* end_time >= start_time, whatever the scene texts (empty ones included)
\* and the valid Alignment.  Stated here for Alignments of the narration.
C3_EndNotBeforeStart ==
    (TimingsAsComputed /\ AlignmentOfNarration) =>
        \A i \in 1..Len(voiceover.scene_timings) :
            voiceover.scene_timings[i].end_time >= voiceover.scene_timings[i].start_time

\* C4 as stated: under the uniform Alignment the entries are contiguous
\* (end_time(i) = start_time(i+1)), start at 0 and end at the narration
\* length.  Stated here for non-empty scene texts.
C4_ContiguousTimeRanges ==
    (TimingsAsComputed /\ UniformNarrationAlignment /\ NonEmptyTexts) =>
        LET ts == voiceover.scene_timings
            n == Len(ts)
        IN  /\ n = Len(scenes)
            /\ \A i \in 1..(n - 1) : ts[i].end_time = ts[i + 1].start_time
            /\ ts[1].start_time = 0
            /\ ts[n].end_time = Round3(Len(JoinSpace(SceneTexts)) * CharTicks)

\* C5: the character range of scene i is the span of scene text i in the
\* narration " ".join(scene_texts); consecutive ranges are separated by
\* exactly the one separator (start_char(i+1) = end_char(i) + 2), the ranges
\* do not overlap and end_char never includes the separator.
C5_CharRangesAreTextSpans ==
    (task.name = "generate_voiceover" /\ task.result = "ok") =>
        LET r == task.char_ranges
            n == Len(scenes)
        IN  /\ Len(r) = n
            /\ \A i \in 1..n :
                  /\ r[i][2] - r[i][1] + 1 = Len(scenes[i].text)
                  /\ r[i][1] >= 0
                  /\ r[i][2] < Len(task.full_text)
                  /\ SubSeq(task.full_text, r[i][1] + 1, r[i][2] + 1) = scenes[i].text
            /\ \A i \in 1..(n - 1) :
                  /\ r[i + 1][1] = r[i][2] + 2
                  /\ task.full_text[r[i][2] + 2] = " "
            /\ \A i, j \in 1..n : i < j => r[i][2] < r[j][1]

C5_Witness ==
    /\ task.name = "generate_voiceover"
    /\ task.result = "ok"
    /\ SceneTexts = ExampleTexts
    /\ task.char_ranges = <<(<<0, 11>>), (<<13, 32>>), (<<34, 45>>)>>

----------------------------------------------------------------------------
(* Claims about the Word Grouper *)

IsWhitespace(ch) == ch \in {" ", "\n"}

\* Positions at which a maximal run of non-whitespace characters starts.
RunStarts(chars) ==
    {i \in 1..Len(chars) :
        ~IsWhitespace(chars[i]) /\ (i = 1 \/ IsWhitespace(chars[i - 1]))}

RunEnd(chars, i) ==
    CHOOSE j \in i..Len(chars) :
        /\ \A k \in i..j : ~IsWhitespace(chars[k])
        /\ j = Len(chars) \/ IsWhitespace(chars[j + 1])

MinStartTime(alignment) ==
    LET starts == alignment.character_start_times_seconds
    IN  CHOOSE m \in {starts[k] : k \in 1..Len(starts)} :
            \A k \in 1..Len(starts) : m <= starts[k]

\* C6: the words are exactly the maximal runs of non-whitespace characters
\* in order; a word starts with its first character and ends with its last
\* one, within the Alignment's [min_start, max_end]; a trailing run is the
\* final word; whitespace-only input has no word.
C6_WordsAreMaximalRuns ==
    cap.pc = "grouped" =>
        LET a == cap.alignment
            chars == a.characters
            runs == Sorted(RunStarts(chars))
        IN  /\ Len(cap.words) = Cardinality(RunStarts(chars))
            /\ \A k \in 1..Len(cap.words) :
                  LET w == cap.words[k]
                      first == runs[k]
                      last == RunEnd(chars, runs[k])
                  IN  /\ w.word = SubSeq(chars, first, last)
                      /\ w.start = a.character_start_times_seconds[first]
                      /\ w.end = a.character_end_times_seconds[last]
                      /\ MinStartTime(a) <= w.start
                      /\ w.start <= w.end
                      /\ w.end <= MaxEndTime(a)
            /\ (\A i \in 1..Len(chars) : IsWhitespace(chars[i])) => cap.words = <<>>
            /\ (chars # <<>> /\ ~IsWhitespace(chars[Len(chars)])) =>
                  /\ cap.words # <<>>
                  /\ cap.words[Len(cap.words)].end =
                         a.character_end_times_seconds[Len(chars)]

C6_Witness ==
    /\ cap.pc = "grouped"
    /\ cap.alignment.characters = <<" ", "a", "\n", "b">>
    /\ Len(cap.words) = 2
    /\ cap.words[2].word = <<"b">>
    /\ cap.words[2].start > cap.words[1].end

----------------------------------------------------------------------------
(* Claims about the Caption Grouper *)

\* C7: the returned boundary list is strictly increasing with every index
\* in 0 < index < wordCount, on the service path and on the fallback path;
\* raw indices 3, 3, 0, 100, 5 with 10 words give [3, 5].
C7_BoundariesAreValid ==
    cap.pc = "boundaries" =>
        LET b == cap.boundaries
            n == Len(cap.words)
        IN  /\ \A k \in 1..Len(b) : 0 < b[k] /\ b[k] < n
            /\ \A k \in 1..(Len(b) - 1) : b[k] < b[k + 1]
            /\ (~cap.raises /\ cap.raw = ExampleRaw /\ n = 10) => b = <<3, 5>>

C7_Witness ==
    /\ cap.pc = "boundaries"
    /\ ~cap.raises
    /\ cap.raw = ExampleRaw
    /\ Len(cap.words) = 10
    /\ cap.boundaries = <<3, 5>>

\* Every 5th word index starting at 5, below wordCount.
EveryFifthIndex(n_words) ==
    [k \in 1..(IF n_words > 0 THEN (n_words - 1) \div 5 ELSE 0) |-> 5 * k]

\* C8 as stated: when the service call raises or its response holds no
\* index with 0 < index < wordCount, the result is every 5th word index
\* starting at 5.
C8_FallbackOnBadResponse ==
    (/\ cap.pc = "boundaries"
     /\ \/ cap.raises
        \/ /\ cap.raw # <<>>
           /\ \A k \in 1..Len(ParsedIndices(cap.raw)) :
                 \/ ParsedIndices(cap.raw)[k] = None
                 \/ ParsedIndices(cap.raw)[k] <= 0
                 \/ ParsedIndices(cap.raw)[k] >= Len(cap.words))
    => cap.boundaries = EveryFifthIndex(Len(cap.words))

----------------------------------------------------------------------------
(* Claims about the Subtitle Track Builder *)

\* A formatted timestamp in hundredths of a second.
AssValue(t) == ((t.h * 60 + t.m) * 60 + t.s) * 100 + t.c

IsHighlightRun == cap.pc = "captions" /\ cap.caption_style = "word_highlight"

\* 0-based bounds of the 5-word chunk of word k.
ChunkLo(k) == 5 * (k \div 5)

ChunkHi(k, n) == Min(ChunkLo(k) + 4, n - 1)

\* C9: word_highlight emits one event per word, in word order; the event of
\* word k shows the words of k's 5-word chunk in order, word k highlighted
\* and every other word dimmed.
C9_OneEventPerWord ==
    IsHighlightRun =>
        LET n == Len(cap.words)
        IN  /\ n > 0
            /\ Len(cap.events) = n
            /\ \A k \in 0..(n - 1) :
                  LET parts == cap.events[k + 1].parts
                  IN  /\ Len(parts) = ChunkHi(k, n) - ChunkLo(k) + 1
                      /\ \A j \in ChunkLo(k)..ChunkHi(k, n) :
                            /\ parts[j - ChunkLo(k) + 1].word = cap.words[j + 1].word
                            /\ parts[j - ChunkLo(k) + 1].style =
                                   IF j = k THEN "Highlight" ELSE "Dim"

C9_Witness ==
    /\ IsHighlightRun
    /\ Len(cap.words) = 7
    /\ Len(cap.events) = 7
    /\ Len(cap.events[5].parts) = 5
    /\ cap.events[5].parts[5].style = "Highlight"
    /\ Len(cap.events[7].parts) = 2

\* C10: the event of a word starts at the word's start and ends at the
\* start of the next word of its chunk, or at the end of the chunk's last
\* word; every event has start <= end and the events of a chunk tile the
\* interval from the chunk's first word start to its last word end.
C10_EventTimes ==
    IsHighlightRun =>
        LET n == Len(cap.words)
        IN  \A k \in 0..(n - 1) :
                LET ev == cap.events[k + 1]
                IN  /\ ev.start = _format_ass_time(cap.words[k + 1].start)
                    /\ ev.end = IF k < ChunkHi(k, n)
                                THEN _format_ass_time(cap.words[k + 2].start)
                                ELSE _format_ass_time(cap.words[ChunkHi(k, n) + 1].end)
                    /\ AssValue(ev.start) <= AssValue(ev.end)
                    /\ k < ChunkHi(k, n) => ev.end = cap.events[k + 2].start

C10_Witness ==
    /\ IsHighlightRun
    /\ Len(cap.words) = 7
    /\ cap.events[1].end = cap.events[2].start
    /\ AssValue(cap.events[1].end) > AssValue(_format_ass_time(cap.words[1].end))
    /\ cap.events[5].end = _format_ass_time(cap.words[5].end)
    /\ AssValue(cap.events[5].end) < AssValue(cap.events[6].start)

\* C11 as stated: for a non-negative time with millisecond resolution the
\* timestamp has a minute field in 00..59, a second field in 00..59 and a
\* hundredths field in 00..99 and denotes the time rounded to the hundredth
\* of a second; 3661.25 s gives 1:01:01.25.
C11_TimestampFields ==
    cap.pc = "formatted" =>
        /\ cap.stamp.h >= 0
        /\ cap.stamp.m \in 0..59
        /\ cap.stamp.s \in 0..59
        /\ cap.stamp.c \in 0..99
        /\ AssValue(cap.stamp) =
               (cap.seconds + TicksPerCentisecond \div 2) \div TicksPerCentisecond
        /\ cap.seconds = 366125 * TicksPerCentisecond
               => cap.stamp = [h |-> 1, m |-> 1, s |-> 1, c |-> 25]

----------------------------------------------------------------------------
(* Claims about the choice and the offsets of the cross-fade chain *)

\* Every adjacent pair of segments is joined by a cut or by a transition of
\* non-positive duration; entry i carries the transition into segment i+1.
AllPairsCut(entries) ==
    \A i \in 1..(Len(entries) - 1) :
        entries[i].transition_type = "cut" \/ entries[i].transition_duration <= 0

\* C12: the segments are concatenated exactly when every adjacent pair has
\* transition_type cut or transition_duration <= 0 and the cross-fade chain
\* is built otherwise; the last entry's transition fields play no part and
\* a single segment never gets a cross-fade filter.
C12_PathChoice ==
    cv.path # "none" =>
        LET e == cv.scene_entries
        IN  /\ (cv.path = "concat") = AllPairsCut(e)
            /\ (cv.path = "xfade") = ~AllPairsCut(e)
            /\ cv.path = "concat" => cv.filter_parts = <<>>
            /\ cv.path = "xfade" => Len(cv.filter_parts) = Len(e) - 1
            /\ Len(e) = 1 => cv.path = "concat"

C12_Witness ==
    /\ cv.pc = "done"
    /\ Len(cv.scene_entries) = 2
    /\ cv.scene_entries[1].transition_type = "cut"
    /\ cv.scene_entries[1].transition_duration > 0
    /\ cv.scene_entries[2].transition_type = "fade"
    /\ cv.scene_entries[2].transition_duration > 0
    /\ cv.path = "concat"
    /\ cv.filter_parts = <<>>

\* cumulative_offset before the step that joins segment k+1 (entry k).
OffsetBefore(parts, k) == IF k = 1 THEN 0 ELSE parts[k - 1].offset

ChainedLabels(parts) ==
    \A k \in 1..Len(parts) :
        /\ parts[k].first = IF k = 1 THEN InputLabel(0) ELSE parts[k - 1].out
        /\ parts[k].second = InputLabel(k)
        /\ \A j \in 1..Len(parts) : j # k => parts[j].out # parts[k].out

\* C13 as stated: a cut between segment i-1 and i advances the cumulative
\* offset by segment i's duration; a non-cut transition of duration d > 0
\* overlaps segment i at cumulative_offset + duration(i-1) - d, clamped to
\* >= 0, which becomes the cumulative offset; each step reads the output
\* of the step before.
C13_OffsetsAsStated ==
    cv.path = "xfade" =>
        LET e == cv.scene_entries
            parts == cv.filter_parts
        IN  /\ ChainedLabels(parts)
            /\ \A k \in 1..Len(parts) :
                  /\ e[k].transition_type = "cut" =>
                         parts[k].offset = OffsetBefore(parts, k) + e[k + 1].duration
                  /\ (e[k].transition_type # "cut" /\ e[k].transition_duration > 0) =>
                         LET raw == OffsetBefore(parts, k) + e[k].duration
                                        - e[k].transition_duration
                         IN  parts[k].offset = IF raw < 0 THEN 0 ELSE raw

\* C13 amended: a cut (or a transition of duration <= 0) between segment
\* i-1 and i advances the cumulative offset by the duration of segment
\* i-1, the outgoing one, so that the offset is where segment i begins; a
\* non-cut transition of duration d > 0 overlaps segment i at
\* cumulative_offset + duration(i-1) - d, clamped to >= 0, which becomes
\* the cumulative offset; each step reads the output of the step before.
C13_Offsets ==
    cv.path = "xfade" =>
        LET e == cv.scene_entries
            parts == cv.filter_parts
        IN  /\ Len(parts) = Len(e) - 1
            /\ ChainedLabels(parts)
            /\ \A k \in 1..Len(parts) :
                  /\ parts[k].offset >= 0
                  /\ (e[k].transition_type = "cut" \/ e[k].transition_duration <= 0) =>
                         /\ parts[k].kind = "concat"
                         /\ parts[k].offset = OffsetBefore(parts, k) + e[k].duration
                  /\ (e[k].transition_type # "cut" /\ e[k].transition_duration > 0) =>
                         LET raw == OffsetBefore(parts, k) + e[k].duration
                                        - e[k].transition_duration
                         IN  /\ parts[k].kind = "xfade"
                             /\ parts[k].duration = e[k].transition_duration
                             /\ parts[k].offset = IF raw < 0 THEN 0 ELSE raw

C13_Witness ==
    /\ cv.pc = "done"
    /\ cv.path = "xfade"
    /\ Len(cv.scene_entries) = 3
    /\ cv.scene_entries[1].transition_type = "cut"
    /\ cv.scene_entries[1].duration = 400
    /\ cv.scene_entries[2].duration = 1000
    /\ cv.scene_entries[2].transition_type = "fade"
    /\ cv.filter_parts[1].offset = 400
    /\ cv.filter_parts[2].offset = 400 + 1000 - FadeMs
    /\ cv.filter_parts[2].first = OutLabel(1)

----------------------------------------------------------------------------
(* Claims about render_video_task *)

RenderFailed == task.name = "render_video" /\ task.result = "error"

\* C14 as stated: a render that fails, whatever the cause, returns an error
\* and leaves the video record or the voiceover record of that render in an
\* error/rejected state.  Stated here for the causes the claim lists.
C14_FailureLeavesErrorStatus ==
    (/\ RenderFailed
     /\ task.error \in {"No scene timings found", "No valid scene images found",
                        "TypeError", "ffmpeg"}) =>
        \/ videos # <<>> /\ videos[Len(videos)].status = "rejected"
        \/ voiceover.status = "error"

\* C15 as stated: when render_video_task has returned, every video record
\* it created is approved or rejected, never pending, also when a step
\* between the creation of the record and the encoder call raised; an
\* approved record has its file_path set and belongs to a render whose
\* steps all succeeded.
C15_ApprovedOrRejected ==
    \A k \in 1..Len(videos) :
        /\ videos[k].status \in {"approved", "rejected"}
        /\ videos[k].status = "approved" =>
               videos[k].file_path /\ task.name = "render_video" /\ task.result = "ok"

\* The timing entries that become render entries, in order.
UsedTimings(timings) == SelectSeq(timings, LAMBDA t : UsableScene(t) # 0)

\* An epsilon: at most a tenth of a second.
SmallEpsilonMs == 1000 \div 10

\* C20 as stated: every render entry has duration > 0, end_time - start_time
\* when that is positive and a small positive epsilon otherwise.
C20_DurationFlooredToEpsilon ==
    (task.name = "render_video" /\ task.scene_entries # <<>>) =>
        LET used == UsedTimings(task.timings)
        IN  \A k \in 1..Len(task.scene_entries) :
                LET diff == used[k].end_time - used[k].start_time
                    duration == task.scene_entries[k].duration
                IN  /\ duration > 0
                    /\ diff > 0 => duration = diff
                    /\ diff <= 0 => duration <= SmallEpsilonMs

\* C20 amended: every render entry has duration > 0, end_time - start_time
\* when that is positive and one whole second (1.0) otherwise.
C20_DurationPositive ==
    (task.name = "render_video" /\ task.scene_entries # <<>>) =>
        LET used == UsedTimings(task.timings)
        IN  /\ Len(task.scene_entries) = Len(used)
            /\ \A k \in 1..Len(task.scene_entries) :
                  LET diff == used[k].end_time - used[k].start_time
                      duration == task.scene_entries[k].duration
                  IN  /\ duration > 0
                      /\ diff > 0 => duration = diff
                      /\ diff <= 0 => duration = 1000

C20_Witness ==
    /\ task.name = "render_video"
    /\ Len(task.scene_entries) = 2
    /\ task.timings[1].end_time < task.timings[1].start_time
    /\ task.scene_entries[1].duration = 1000
    /\ task.timings[2].end_time - task.timings[2].start_time = 200
    /\ task.scene_entries[2].duration = 200

----------------------------------------------------------------------------
(* Claims about the working files of the compositor *)

CallEnded == cv.pc \in {"done", "failed"}

----------------------------------------------------------------------------
(* Claims about the Word Grouper's input contract *)

EqualLengths(alignment) ==
    /\ Len(alignment.character_start_times_seconds) = Len(alignment.characters)
    /\ Len(alignment.character_end_times_seconds) = Len(alignment.characters)

\* C19 as stated: the Word Grouper raises, and returns no words, whenever
\* the three lists of the Alignment do not all have the same length.
C19_FailsOnUnequalLengths ==
    cap.pc = "grouped" => EqualLengths(cap.alignment)

----------------------------------------------------------------------------
(* Claims about the worker pool *)

\* C17 as stated: with two or more workers, two executions of
\* render_video_task for the same voiceover are never in progress at the
\* same time.
C17_OneRenderPerVoiceover ==
    \A w1, w2 \in Workers :
        (/\ w1 # w2
         /\ pool.running[w1].name = "render_video"
         /\ pool.running[w2].name = "render_video")
        => pool.running[w1].voiceover_id # pool.running[w2].voiceover_id

----------------------------------------------------------------------------
(* Claims about the scene order *)

\* C18 as stated: after any sequence of segmentation, preview update,
\* insert (with any after_order), delete and update, the order values of the
\* project's scenes are exactly 1..n, without gap or duplicate.
C18_OrdersContiguous ==
    {scenes[i].order : i \in 1..Len(scenes)} = 1..Len(scenes)

----------------------------------------------------------------------------
(* Claims about the clamp of compute_scene_timings *)

ValidIndex(seq, idx) == idx >= 0 /\ idx < Len(seq)

\* C21: for every input of compute_scene_timings (an empty first scene
\* text, an empty scene text elsewhere, an Alignment shorter than the joined
\* texts included) both offsets of every scene are clamped to
\* [0, len(character_times) - 1] before the times are read: no read is out of
\* range (the task never ends with an IndexError) and none wraps around.
C21_OffsetsClampedToRange ==
    task.name = "generate_voiceover" /\ task.error \notin {"No scenes found", "TTS failed"}
    => /\ task.error # "IndexError"
       /\ task.result = "ok"
          => \A i \in 1..Len(task.char_ranges) :
                /\ ValidIndex(StoredAlignment.character_start_times_seconds,
                              clamped_start(task.char_ranges[i], StoredAlignment))
                /\ ValidIndex(StoredAlignment.character_end_times_seconds,
                              clamped_end(task.char_ranges[i], StoredAlignment))

----------------------------------------------------------------------------
(* Claims about the caption position settings *)

\* The render reached the caption step with captions enabled.
RenderWithCaptions ==
    /\ task.name = "render_video"
    /\ task.error \notin {"Voiceover not ready", "No scenes found",
                          "No scene timings found", "No valid scene images found"}
    /\ voiceover.captions_enabled

\* C22: the caption_alignment and caption_margin_v submitted through the
\* caption-settings update are carried exactly by the Alignment and MarginV
\* fields of the style header of the next render's subtitle document, and
\* the render does not fail because of them.
C22_CaptionPositionPassedThrough ==
    RenderWithCaptions
    => /\ task.error # "TypeError"
       /\ \A body \in CaptionSettings :
             body[1] /\ body[2] = voiceover.caption_style
             => StyleHeader.Alignment = body[3] /\ StyleHeader.MarginV = body[4]

----------------------------------------------------------------------------
(* Claims about the subtitle_chunks style *)

IsChunksRun == cap.pc = "captions" /\ cap.caption_style = "subtitle_chunks"

\* 1-based bounds of the c-th 6-word chunk of n words.
PlainLo(c) == 6 * (c - 1) + 1

PlainHi(c, n) == Min(6 * c, n)

\* C23: for N >= 1 words, subtitle_chunks emits exactly ceil(N/6) events,
\* one per 6-word chunk in order; each spans from the chunk's first word
\* start to its last word end and shows the chunk's words in order, joined
\* by spaces, with no highlight or dim directive.
C23_OneEventPerChunk ==
    IsChunksRun =>
        LET n == Len(cap.words)
        IN  /\ n > 0
            /\ Len(cap.events) = (n + 5) \div 6
            /\ \A c \in 1..Len(cap.events) :
                  LET ev == cap.events[c]
                  IN  /\ ev.start = _format_ass_time(cap.words[PlainLo(c)].start)
                      /\ ev.end = _format_ass_time(cap.words[PlainHi(c, n)].end)
                      /\ Len(ev.parts) = PlainHi(c, n) - PlainLo(c) + 1
                      /\ \A j \in 1..Len(ev.parts) :
                            /\ ev.parts[j].word = cap.words[PlainLo(c) + j - 1].word
                            /\ ev.parts[j].style = "Plain"

C23_Witness ==
    /\ IsChunksRun
    /\ Len(cap.words) = 7
    /\ Len(cap.events) = 2
    /\ Len(cap.events[1].parts) = 6
    /\ Len(cap.events[2].parts) = 1
    /\ AssValue(cap.events[1].end) > AssValue(_format_ass_time(cap.words[1].end))

----------------------------------------------------------------------------
(* Claims about the step order of create_video_with_transitions *)

Composited == cv.path # "none"

\* C25: in every execution of create_video_with_transitions each step
\* starts only after the previous one succeeded: a segment is rendered only
\* before compositing; the clips are composited only when all segments are
\* rendered; the subtitle track is burned in once, only after compositing,
\* only before the mux, and exactly when a subtitle file was given and
\* exists; the audio is attached last, and the output path is returned only
\* after the mux succeeded.
C25_StepOrder ==
    [][/\ cv'.seg_done # cv.seg_done
          => ~Composited /\ cv.burned = 0 /\ ~cv.muxed
       /\ cv'.path # cv.path
          => cv.seg_done = Len(cv.scene_entries) /\ cv.burned = 0 /\ ~cv.muxed
       /\ cv'.burned # cv.burned
          => Composited /\ cv.ass /\ cv.burned = 0 /\ cv'.burned = 1 /\ ~cv.muxed
       /\ cv'.muxed # cv.muxed
          => Composited /\ (cv.burned = 1 <=> cv.ass) /\ cv'.muxed
       /\ cv'.result = "output_path" => cv'.muxed]_vars

C25_Witness ==
    /\ cv.pc = "done"
    /\ cv.result = "output_path"
    /\ Len(cv.scene_entries) = 3
    /\ cv.seg_done = 3
    /\ cv.path = "xfade"
    /\ cv.burned = 1
    /\ cv.muxed

----------------------------------------------------------------------------
(* Claims about the render list of render_video_task *)

\* C24: the segment list handed to the compositor has one entry per stored
\* timing entry, in the same order: entry k carries the duration and the
\* transition metadata of timing entry k, whatever images exist.
C24_EntryPerTiming ==
    task.name = "render_video" /\ task.result = "ok"
    => /\ Len(task.scene_entries) = Len(task.timings)
       /\ \A k \in 1..Len(task.scene_entries) :
             k <= Len(task.timings)
             => /\ task.scene_entries[k].duration = EntryDuration(task.timings[k])
                /\ task.scene_entries[k].transition_type =
                       task.timings[k].transition_type
                /\ task.scene_entries[k].transition_duration =
                       task.timings[k].transition_duration

----------------------------------------------------------------------------
(* Claims about the voiceover status *)

----------------------------------------------------------------------------
(* Claims about image generation *)

TaskImage == CHOOSE img \in {images[i] : i \in 1..Len(images)} : img.id = task.image_id

RecordSettled ==
    \/ TaskImage.file_path /\ TaskImage.status = "pending"
    \/ TaskImage.status = "rejected"

----------------------------------------------------------------------------
(* Claims about repeated segmentation *)

\* The text and order of the stored scenes, in the order of their creation.
SceneData(rows) == [i \in 1..Len(rows) |-> [text |-> rows[i].text, order |-> rows[i].order]]

AllSegmentTasksEnded ==
    /\ pool.queue = 0
    /\ \A w \in Workers : pool.running[w].pc = "idle"

\* C27: after any number of executions of segment_project_task on one
\* project, one after another or interleaved on different workers, the
\* project's scenes are exactly the deduplicated scenes (unique by stripped
\* text and order) of a single segmentation result.
C27_ScenesOfOneSegmentation ==
    AllSegmentTasksEnded /\ pool.completed > 0 /\ pool.failed = 0
    => \E scenes_data \in TaskResponses :
          SceneData(scenes) = UniqueScenesData(scenes_data, {})

----------------------------------------------------------------------------
(* Claims about script revision *)

\* The user_feedback of the last min(5, n) of the first n stored iterations,
\* oldest first.
WindowAt(n) ==
    LET size == Min(SCRIPT_ITERATION_WINDOW_SIZE, n)
    IN  [i \in 1..size |-> iterations[n - size + i].user_feedback]

\* C28: the k-th stored iteration has round_number k (also when two calls
\* overlap), and the previous-feedback list sent with a revision is the
\* user_feedback of the last min(5, n) stored iterations, oldest first,
\* never a revised script.
C28_SlidingWindow ==
    /\ \A k \in 1..Len(iterations) : iterations[k].round_number = k
    /\ \A r \in Threads :
          task.requests[r].pc # "idle"
          => /\ task.requests[r].previous_feedbacks = WindowAt(task.requests[r].seen)
             /\ \A i \in 1..Len(task.requests[r].previous_feedbacks) :
                   task.requests[r].previous_feedbacks[i][1] = "feedback"

----------------------------------------------------------------------------
(* Claims about the approved image of a scene *)

\* C30: after any sequence of approve_image, reject_image and update_scene
\* calls, a scene's approved_image_id, when set, refers to an image of that
\* scene whose status is 'approved'.
C30_ApprovedImageIsApproved ==
    \A k \in 1..Len(scenes) :
        scenes[k].approved_image_id # None
        => \E i \in 1..Len(images) :
              /\ images[i].id = scenes[k].approved_image_id
              /\ images[i].scene_id = scenes[k].id
              /\ images[i].status = "approved"

====
